---- MODULE Spec2Model ----
(***************************************************************************)
(* The GitHub-as-DB data layer of the timeline application: the versioned  *)
(* document store client (getEvents / saveEvents), the conflict-retrying   *)
(* mutator (withRetry) and the three mutation route handlers (POST, PUT,   *)
(* DELETE) together with the public GET handler and the Next.js data      *)
(* cache that getEvents reads through.                                     *)
(***************************************************************************)
EXTENDS Integers, Sequences, FiniteSets, TLC

VARIABLES
    store,      \* the file data/events.json on GitHub: base64 content and blob sha
    cache,      \* the Next.js data cache entry tagged "events"
    req,        \* the mutation requests in flight, one record per request
    lastRead,   \* what the latest GET /api/events returned, and what happened since
    job,        \* one withRetry(fn, maxRetries) execution over an arbitrary fn
    auth,       \* the sign-in state of one browser: GITHUB_OWNER, its JWT, its session
    list,       \* one list request whose fetch of the file is in flight
    probe,      \* one caller issuing requests one after another, and its last answer
    ui          \* the TimelineApp component in one browser: its events state

vars == <<store, cache, req, lastRead, job, auth, list, probe, ui>>

(***************************************************************************)
(* JSON values.  A value is a record [t, n, s]: t is the JavaScript        *)
(* typeof-like tag, n the number (or the length of a string), s the        *)
(* trimmed content of a string (or "Infinity" for a non-finite number).    *)
(***************************************************************************)
Undefined == [t |-> "undefined", n |-> 0, s |-> ""]
Null == [t |-> "null", n |-> 0, s |-> ""]
Num(k) == [t |-> "number", n |-> k, s |-> ""]
Infinite == [t |-> "number", n |-> 0, s |-> "Infinity"]
Str(text, len) == [t |-> "string", n |-> len, s |-> text]
Bool(b) == [t |-> "boolean", n |-> IF b THEN 1 ELSE 0, s |-> ""]

\* body.f, undefined when the JSON object has no such key
Field(obj, f) == IF f \in DOMAIN obj THEN obj[f] ELSE Undefined

IsFiniteNumberAnyNumber(v) == v.t = "number"

\* typeof v === "number" && Number.isFinite(v)
IsFiniteNumber(v) == v.t = "number" /\ v.s = ""

\* JavaScript truthiness, as used by !body.category and if (body.category)
Truthy(v) ==
    CASE v.t = "number" -> v.s # "" \/ v.n # 0
      [] v.t = "string" -> v.n > 0
      [] v.t = "boolean" -> v.n = 1
      [] OTHER -> FALSE

\* v.trim().length === 0
IsBlank(v) == v.s = ""

\* a ?? null
OrNull(v) == IF v.t \in {"undefined", "null"} THEN Null ELSE v

MinYear == -9999
MaxYear == 9999
MaxNameLen == 500
MaxRegionLen == 200
MaxDescriptionLen == 2000

\* CATEGORIES.map((c) => c.value)
validCategories == {"invention", "event", "person", "discovery", "civilization"}

\* validCategories.includes(v)
IsValidCategory(v) == v.t = "string" /\ v.s \in validCategories /\ v.n = Len(v.s)

Cat(c) == Str(c, Len(c))

(***************************************************************************)
(* Request validation of the two body-carrying handlers.  The result is    *)
(* the error text of the 400 response, or "" when the body is accepted.    *)
(***************************************************************************)
ValidatePOSTOrdered(body) ==
    LET year == Field(body, "year")
        name == Field(body, "name")
        category == Field(body, "category")
        endYear == Field(body, "endYear")
        description == Field(body, "description")
        region == Field(body, "region")
    IN  IF ~IsFiniteNumber(year) THEN "Field 'year' must be a finite number"
        ELSE IF year.n < MinYear \/ year.n > MaxYear
            THEN "Year must be between -9999 and 9999"
        ELSE IF name.t # "string" \/ IsBlank(name) THEN "Field 'name' is required"
        ELSE IF name.n > MaxNameLen THEN "Name must be 500 characters or fewer"
        ELSE IF ~Truthy(category) THEN "Field 'category' is required"
        ELSE IF endYear.t \notin {"undefined", "null"} /\ ~IsFiniteNumber(endYear)
            THEN "Field 'endYear' must be a finite number"
        ELSE IF endYear.t \notin {"undefined", "null"}
                /\ (endYear.n < MinYear \/ endYear.n > MaxYear)
            THEN "End year must be between -9999 and 9999"
        ELSE IF endYear.t \notin {"undefined", "null"} /\ endYear.n < year.n
            THEN "End year must not be before year"
        ELSE IF description.t \notin {"undefined", "null"}
                /\ (description.t # "string" \/ description.n > MaxDescriptionLen)
            THEN "Description must be 2000 characters or fewer"
        ELSE IF region.t \notin {"undefined", "null"}
                /\ (region.t # "string" \/ region.n > MaxRegionLen)
            THEN "Region must be 200 characters or fewer"
        ELSE IF ~IsValidCategory(category) THEN "Invalid category"
        ELSE ""

\* POST /api/events, the checks before the retry loop
ValidatePOSTNoCategoryList(body) ==
    IF ~IsFiniteNumber(Field(body, "year")) THEN "Field 'year' must be a finite number"
    ELSE IF Field(body, "name").t # "string" \/ IsBlank(Field(body, "name"))
        THEN "Field 'name' is required"
    ELSE IF ~Truthy(Field(body, "category")) THEN "Field 'category' is required"
    ELSE ""

ValidatePOST(body) ==
    LET year == Field(body, "year")
        name == Field(body, "name")
        category == Field(body, "category")
        endYear == Field(body, "endYear")
        description == Field(body, "description")
        region == Field(body, "region")
    IN  IF ~IsFiniteNumber(year) THEN "Field 'year' must be a finite number"
        ELSE IF year.n < MinYear \/ year.n > MaxYear
            THEN "Year must be between -9999 and 9999"
        ELSE IF name.t # "string" \/ IsBlank(name) THEN "Field 'name' is required"
        ELSE IF name.n > MaxNameLen THEN "Name must be 500 characters or fewer"
        ELSE IF ~Truthy(category) THEN "Field 'category' is required"
        ELSE IF endYear.t \notin {"undefined", "null"} /\ ~IsFiniteNumber(endYear)
            THEN "Field 'endYear' must be a finite number"
        ELSE IF endYear.t \notin {"undefined", "null"}
                /\ (endYear.n < MinYear \/ endYear.n > MaxYear)
            THEN "End year must be between -9999 and 9999"
        ELSE IF description.t \notin {"undefined", "null"}
                /\ (description.t # "string" \/ description.n > MaxDescriptionLen)
            THEN "Description must be 2000 characters or fewer"
        ELSE IF region.t \notin {"undefined", "null"}
                /\ (region.t # "string" \/ region.n > MaxRegionLen)
            THEN "Region must be 200 characters or fewer"
        ELSE IF ~IsValidCategory(category) THEN "Invalid category"
        ELSE ""

ValidatePUTExclusiveBounds(body) ==
    LET year == Field(body, "year")
        name == Field(body, "name")
        category == Field(body, "category")
        endYear == Field(body, "endYear")
        description == Field(body, "description")
        region == Field(body, "region")
    IN  IF year.t # "undefined" /\ ~IsFiniteNumber(year)
            THEN "Field 'year' must be a finite number"
        ELSE IF year.t # "undefined" /\ (year.n <= MinYear \/ year.n >= MaxYear)
            THEN "Year must be between -9999 and 9999"
        ELSE IF endYear.t \notin {"undefined", "null"} /\ ~IsFiniteNumber(endYear)
            THEN "Field 'endYear' must be a finite number"
        ELSE IF endYear.t \notin {"undefined", "null"}
                /\ (endYear.n <= MinYear \/ endYear.n >= MaxYear)
            THEN "End year must be between -9999 and 9999"
        ELSE IF name.t # "undefined"
                /\ (name.t # "string" \/ IsBlank(name) \/ name.n > MaxNameLen)
            THEN "Name must be a non-empty string of 500 characters or fewer"
        ELSE IF description.t \notin {"undefined", "null"}
                /\ (description.t # "string" \/ description.n > MaxDescriptionLen)
            THEN "Description must be 2000 characters or fewer"
        ELSE IF region.t \notin {"undefined", "null"}
                /\ (region.t # "string" \/ region.n > MaxRegionLen)
            THEN "Region must be 200 characters or fewer"
        ELSE IF Truthy(category) /\ ~IsValidCategory(category) THEN "Invalid category"
        ELSE ""

\* PUT /api/events/[id], the checks before the retry loop
ValidatePUT(body) ==
    LET year == Field(body, "year")
        name == Field(body, "name")
        category == Field(body, "category")
        endYear == Field(body, "endYear")
        description == Field(body, "description")
        region == Field(body, "region")
    IN  IF year.t # "undefined" /\ ~IsFiniteNumber(year)
            THEN "Field 'year' must be a finite number"
        ELSE IF year.t # "undefined" /\ (year.n < MinYear \/ year.n > MaxYear)
            THEN "Year must be between -9999 and 9999"
        ELSE IF endYear.t \notin {"undefined", "null"} /\ ~IsFiniteNumber(endYear)
            THEN "Field 'endYear' must be a finite number"
        ELSE IF endYear.t \notin {"undefined", "null"}
                /\ (endYear.n < MinYear \/ endYear.n > MaxYear)
            THEN "End year must be between -9999 and 9999"
        ELSE IF name.t # "undefined"
                /\ (name.t # "string" \/ IsBlank(name) \/ name.n > MaxNameLen)
            THEN "Name must be a non-empty string of 500 characters or fewer"
        ELSE IF description.t \notin {"undefined", "null"}
                /\ (description.t # "string" \/ description.n > MaxDescriptionLen)
            THEN "Description must be 2000 characters or fewer"
        ELSE IF region.t \notin {"undefined", "null"}
                /\ (region.t # "string" \/ region.n > MaxRegionLen)
            THEN "Region must be 200 characters or fewer"
        ELSE IF Truthy(category) /\ ~IsValidCategory(category) THEN "Invalid category"
        ELSE ""

(***************************************************************************)
(* The mutations applied to the freshly parsed collection.                 *)
(***************************************************************************)
randomUUIDRepeats(r, k) == Str("uuid", 36)

\* crypto.randomUUID(): a value no other call returns; named by the request
\* and the invocation of the retried closure that made it
randomUUID(r, k) == Str("uuid-" \o r \o "-" \o ToString(k), 36)

newEventKeepsBodyId(body, uuid) ==
    [id |-> IF "id" \in DOMAIN body THEN body.id ELSE uuid,
     year |-> Field(body, "year"),
     name |-> Field(body, "name"),
     category |-> Field(body, "category"),
     endYear |-> OrNull(Field(body, "endYear")),
     region |-> OrNull(Field(body, "region")),
     description |-> OrNull(Field(body, "description"))]

\* the newEvent literal of POST
newEvent(body, uuid) ==
    [id |-> uuid,
     year |-> Field(body, "year"),
     name |-> Field(body, "name"),
     category |-> Field(body, "category"),
     endYear |-> OrNull(Field(body, "endYear")),
     region |-> OrNull(Field(body, "region")),
     description |-> OrNull(Field(body, "description"))]

\* data.events.findIndex((e) => e.id === id), 0 standing for -1
findIndex(events, id) ==
    IF \E i \in 1..Len(events) : Field(events[i], "id") = id
    THEN CHOOSE i \in 1..Len(events) :
            /\ Field(events[i], "id") = id
            /\ \A j \in 1..(i - 1) : Field(events[j], "id") # id
    ELSE 0

mergeEventExistingWins(event, body, id) ==
    [f \in DOMAIN event \cup DOMAIN body \cup {"id"} |->
        IF f = "id" THEN id
        ELSE IF f \in DOMAIN event THEN event[f]
        ELSE body[f]]

mergeEventBodyIdWins(event, body, id) ==
    [f \in DOMAIN event \cup DOMAIN body |->
        IF f \in DOMAIN body THEN body[f] ELSE event[f]]

\* { ...data.events[index], ...body, id }
mergeEvent(event, body, id) ==
    [f \in DOMAIN event \cup DOMAIN body \cup {"id"} |->
        IF f = "id" THEN id
        ELSE IF f \in DOMAIN body THEN body[f]
        ELSE event[f]]

filterOutDropsLast(events, id) == SubSeq(events, 1, Len(events) - 1)

\* data.events.filter((e) => e.id !== id)
filterOut(events, id) == SelectSeq(events, LAMBDA e : Field(e, "id") # id)

(***************************************************************************)
(* Serialisation: JSON.stringify / JSON.parse and the base64 envelope.     *)
(***************************************************************************)
\* JSON.stringify of one value: a non-finite number is written as null
stringifyValue(v) == IF v.t = "number" /\ v.s # "" THEN Null ELSE v

stringifyEventDropsNull(e) ==
    [f \in {g \in DOMAIN e : e[g].t \notin {"undefined", "null"}} |-> stringifyValue(e[f])]

\* JSON.stringify of one event: keys whose value is undefined are dropped
stringifyEvent(e) ==
    [f \in {g \in DOMAIN e : e[g].t # "undefined"} |-> stringifyValue(e[f])]

\* JSON.stringify(events, null, 2)
stringify(events) == [json |-> [i \in 1..Len(events) |-> stringifyEvent(events[i])]]

\* JSON.parse(content)
parse(text) == text.json

\* Buffer.from(text, "utf-8").toString("base64")
toBase64(text) == [b64 |-> text]

\* Buffer.from(content, "base64").toString("utf-8")
fromBase64(content) == content.b64

\* the blob sha GitHub derives from the file content
BlobSha(content) == <<content>>

NoSha == <<>>

(***************************************************************************)
(* The store client: getEvents and saveEvents over the GitHub Contents     *)
(* API, read through the Next.js data cache.                               *)
(***************************************************************************)
NoEntry == [full |-> FALSE, content |-> toBase64(stringify(<<>>)), sha |-> NoSha]

\* the file a PUT of these events creates on GitHub
FileOf(events) ==
    LET content == toBase64(stringify(events))
    IN  [content |-> content, sha |-> BlobSha(content)]

\* the events currently in the file
StoredEvents == parse(fromBase64(store.content))

cachedFetchNetworkFirst(up) ==
    IF up THEN [ok |-> TRUE, content |-> store.content, sha |-> store.sha, src |-> "store"]
    ELSE IF cache.full THEN [ok |-> TRUE, content |-> cache.content, sha |-> cache.sha,
                             src |-> "cache"]
    ELSE [ok |-> FALSE, content |-> NoEntry.content, sha |-> NoSha, src |-> "store"]

\* fetch(url, { next: { tags: ["events"], revalidate: 3600 } }): the cached
\* response when there is one, else the response of GitHub (up: the call
\* reaches GitHub and GitHub answers 200)
cachedFetch(up) ==
    IF cache.full THEN [ok |-> TRUE, content |-> cache.content, sha |-> cache.sha,
                        src |-> "cache"]
    ELSE IF up THEN [ok |-> TRUE, content |-> store.content, sha |-> store.sha,
                     src |-> "store"]
    ELSE [ok |-> FALSE, content |-> NoEntry.content, sha |-> NoSha, src |-> "store"]

\* the cache entry after that fetch: a 200 response fills it
cacheAfterFetch(up) ==
    IF ~cache.full /\ up
    THEN [full |-> TRUE, content |-> store.content, sha |-> store.sha]
    ELSE cache

\* getEvents(): { data, sha } or the thrown Error
getEvents(up) ==
    LET res == cachedFetch(up)
    IN  IF ~res.ok THEN [outcome |-> "Error", data |-> <<>>, sha |-> NoSha, src |-> res.src]
        ELSE [outcome |-> "ok", data |-> parse(fromBase64(res.content)), sha |-> res.sha,
              src |-> res.src]

\* the status GitHub answers to PUT contents with this sha: 409 when the sha
\* is not the file's current blob sha
putStatus(sha, up) ==
    IF ~up THEN 503
    ELSE IF sha # store.sha THEN 409
    ELSE 200

saveEventsLatestSha(events, sha, up) ==
    LET status == putStatus(store.sha, up)
        file == FileOf(events)
    IN  IF status = 409 THEN [outcome |-> "ConflictError", sha |-> NoSha, file |-> store]
        ELSE IF status \notin 200..299 THEN [outcome |-> "Error", sha |-> NoSha, file |-> store]
        ELSE [outcome |-> "ok", sha |-> file.sha, file |-> file]

saveEventsNo409(events, sha, up) ==
    LET status == putStatus(sha, up)
        file == FileOf(events)
    IN  IF status \notin 200..299 THEN [outcome |-> "Error", sha |-> NoSha, file |-> store]
        ELSE [outcome |-> "ok", sha |-> file.sha, file |-> file]

saveEventsReturnsGivenSha(events, sha, up) ==
    LET status == putStatus(sha, up)
        file == FileOf(events)
    IN  IF status = 409 THEN [outcome |-> "ConflictError", sha |-> NoSha, file |-> store]
        ELSE IF status \notin 200..299 THEN [outcome |-> "Error", sha |-> NoSha, file |-> store]
        ELSE [outcome |-> "ok", sha |-> sha, file |-> file]

saveEventsStoresOnConflict(events, sha, up) ==
    LET status == putStatus(sha, up)
        file == FileOf(events)
    IN  IF status = 409 THEN [outcome |-> "ConflictError", sha |-> NoSha, file |-> file]
        ELSE IF status \notin 200..299 THEN [outcome |-> "Error", sha |-> NoSha, file |-> store]
        ELSE [outcome |-> "ok", sha |-> file.sha, file |-> file]

\* saveEvents(events, sha, message): the returned { sha } or the thrown error
saveEvents(events, sha, up) ==
    LET status == putStatus(sha, up)
        file == FileOf(events)
    IN  IF status = 409 THEN [outcome |-> "ConflictError", sha |-> NoSha, file |-> store]
        ELSE IF status \notin 200..299 THEN [outcome |-> "Error", sha |-> NoSha, file |-> store]
        ELSE [outcome |-> "ok", sha |-> file.sha, file |-> file]

(***************************************************************************)
(* withRetry(fn, maxRetries = 3)                                           *)
(***************************************************************************)
DefaultMaxRetries == 3
BackoffUnitMs == 200

loopTestStrict(attempt, maxRetries) == attempt < maxRetries

\* the loop test of the for statement: attempt <= maxRetries
loopTest(attempt, maxRetries) == attempt <= maxRetries

withRetryGivesUpEarly(outcome, attempt, maxRetries) ==
    IF outcome = "ok" THEN "return"
    ELSE IF outcome = "ConflictError" /\ attempt + 1 < maxRetries THEN "retry"
    ELSE "throw"

withRetryAnyError(outcome, attempt, maxRetries) ==
    IF outcome = "ok" THEN "return"
    ELSE IF attempt < maxRetries THEN "retry"
    ELSE "throw"

\* what the catch block does with the outcome of the attempt-th call of fn
\* (attempt counts from 0): return the value, sleep and continue, or rethrow
withRetry(outcome, attempt, maxRetries) ==
    IF outcome = "ok" THEN "return"
    ELSE IF outcome = "ConflictError" /\ attempt < maxRetries THEN "retry"
    ELSE "throw"

backoffMsFromAttempt(attempt) == BackoffUnitMs * attempt

\* setTimeout(r, 200 * (attempt + 1))
backoffMs(attempt) == BackoffUnitMs * (attempt + 1)

errorStatusNoNotFound(kind, err) == 500

\* the catch blocks of the handlers: the status of the error response
errorStatus(kind, err) ==
    IF kind \in {"PUT", "DELETE"} /\ err = "NOT_FOUND" THEN 404 ELSE 500

\* the catch blocks of the handlers: the error text of the error response
errorMessage(kind, err) ==
    IF kind \in {"PUT", "DELETE"} /\ err = "NOT_FOUND" THEN "Event not found"
    ELSE CASE kind = "POST" -> "Failed to create event"
           [] kind = "PUT" -> "Failed to update event"
           [] OTHER -> "Failed to delete event"

\* the status of the success response
successStatus(kind) == IF kind = "POST" THEN 201 ELSE 200

(***************************************************************************)
(* Authentication: the NextAuth callbacks of auth.ts and requireOwner.     *)
(* A token, a user and a session are followed by their username only.      *)
(***************************************************************************)
\* no session cookie on the request
NoToken == [some |-> FALSE, username |-> Undefined]

\* the jwt callback called without a user (every call but the sign-in)
NoUser == [some |-> FALSE, username |-> Undefined]

\* auth() returning null
NoSession == [some |-> FALSE, username |-> Undefined, isOwner |-> FALSE]

\* the profile() callback of the GitHub provider: username is profile.login
profile(login) == [some |-> TRUE, username |-> login]

\* callbacks.jwt({ token, user })
jwt(token, user) ==
    IF user.some THEN [token EXCEPT !.username = user.username] ELSE token

\* callbacks.session({ session, token }); owner is process.env.GITHUB_OWNER
session(token, owner) ==
    [some |-> TRUE,
     username |-> IF Truthy(token.username) THEN token.username ELSE Undefined,
     isOwner |-> token.username = owner]

\* auth(): null without a session cookie, else the session made from its token
authSession(token, owner) ==
    IF ~token.some THEN NoSession ELSE session(jwt(token, NoUser), owner)

requireOwnerAnySession(s) == s

\* requireOwner(): the session, or null (NoSession) when !session?.isOwner
requireOwner(s) == IF ~(s.some /\ s.isOwner) THEN NoSession ELSE s

\* the GitHub logins the model signs in, the first being the owner's
OwnerLogin == Str("daviddarx", 9)
Logins == {OwnerLogin, Str("octocat", 7), Str("hubot", 5)}

\* the token of a signed-in browser
SignedIn(login) == jwt([some |-> TRUE, username |-> Undefined], profile(login))

\* what auth() returns for the callers of the mutation handlers, in a
\* deployment whose GITHUB_OWNER is the owner's login
Callers == {authSession(t, OwnerLogin) : t \in {NoToken} \cup {SignedIn(l) : l \in Logins}}

(***************************************************************************)
(* The requests the model issues, and the seed document.                   *)
(***************************************************************************)
Requests == {"A", "B"}

Id1 == Str("550e8400-e29b-41d4-a716-446655440001", 36)
Id5 == Str("550e8400-e29b-41d4-a716-446655440005", 36)
IdMissing == Str("missing-id", 10)

\* two of the events of the committed data/events.json
Seed ==
    << [id |-> Id1, year |-> Num(-3000), name |-> Str("Invention de l'ecriture", 23),
        category |-> Cat("invention"), endYear |-> Null,
        region |-> Str("Mesopotamie", 11),
        description |-> Str("Les Sumeriens developpent l'ecriture cuneiforme.", 48)],
       [id |-> Id5, year |-> Num(1789), name |-> Str("Revolution francaise", 20),
        category |-> Cat("event"), endYear |-> Num(1799), region |-> Str("France", 6),
        description |-> Null] >>

NoBody == [f \in {} |-> Null]

CreateBodies ==
    { [year |-> Num(1969), name |-> Str("Moon", 4), category |-> Cat("event")],
      [year |-> Str("1969", 4), name |-> Str("Moon", 4), category |-> Cat("event")],
      [year |-> Num(1969), name |-> Str("Moon", 4), category |-> Cat("war")] }

UpdateOps ==
    { [kind |-> "PUT", id |-> Id1, body |-> [year |-> Num(-27), endYear |-> Num(476)]],
      [kind |-> "PUT", id |-> Id5, body |-> [name |-> Str("Y", 1)]],
      [kind |-> "PUT", id |-> Id5, body |-> [name |-> Str("Revolution francaise", 20)]],
      [kind |-> "PUT", id |-> IdMissing, body |-> [name |-> Str("Y", 1)]],
      [kind |-> "PUT", id |-> Id1, body |-> [category |-> Cat("war")]],
      [kind |-> "PUT", id |-> Id1, body |-> [year |-> Str("abc", 3)]] }

Ops ==
    [kind : {"POST"}, id : {Undefined}, body : CreateBodies]
    \cup UpdateOps
    \cup [kind : {"DELETE"}, id : {Id1, Id5, IdMissing}, body : {NoBody}]

\* requests whose bodies carry an id of their own, optional fields, or a
\* category that is falsy, next to requests that are rejected
FieldOps ==
    { [kind |-> "POST", id |-> Undefined,
       body |-> [id |-> Id5, year |-> Num(1969), name |-> Str("Moon", 4),
                 category |-> Cat("event"), endYear |-> Num(1972)]],
      [kind |-> "POST", id |-> Undefined,
       body |-> [year |-> Num(1969), name |-> Str("Moon", 4), category |-> Cat("event")]],
      [kind |-> "PUT", id |-> Id1, body |-> [year |-> Num(-27), endYear |-> Num(476)]],
      [kind |-> "PUT", id |-> Id1, body |-> [id |-> Id5, name |-> Str("X", 1)]],
      [kind |-> "PUT", id |-> Id1, body |-> [category |-> Str("", 0)]],
      [kind |-> "PUT", id |-> Id5, body |-> [category |-> Cat("person")]],
      [kind |-> "DELETE", id |-> Id5, body |-> NoBody],
      [kind |-> "DELETE", id |-> Id1, body |-> NoBody],
      [kind |-> "POST", id |-> Undefined,
       body |-> [year |-> Num(1969), name |-> Str("Moon", 4), category |-> Cat("war")]],
      [kind |-> "PUT", id |-> IdMissing, body |-> [name |-> Str("Y", 1)]],
      [kind |-> "DELETE", id |-> IdMissing, body |-> NoBody] }

Idle ==
    [pc |-> "idle", kind |-> "", id |-> Undefined, body |-> NoBody,
     attempt |-> 0, invocations |-> 0, reads |-> 0, writes |-> 0, delays |-> <<>>,
     data |-> <<>>, sha |-> NoSha, src |-> "", fresh |-> TRUE,
     result |-> NoBody, saved |-> NoSha, last |-> "", reached |-> TRUE,
     status |-> 0, err |-> "", message |-> "",
     raced |-> 0, late |-> FALSE, isOwner |-> FALSE]

NoRead == [some |-> FALSE, data |-> <<>>, sha |-> NoSha, written |-> FALSE,
           invalidated |-> FALSE, again |-> FALSE]

NoJob == [pc |-> "off", maxRetries |-> 0, attempt |-> 0, invocations |-> 0,
          last |-> "", log |-> <<>>, delays |-> <<>>, result |-> ""]

NoAuth == [pc |-> "off", env |-> Undefined, token |-> NoToken, used |-> NoToken,
           session |-> NoSession, passed |-> ""]

NoList == [pc |-> "off", res |-> NoEntry, data |-> <<>>, sha |-> NoSha,
           after |-> {}, lists |-> 0]

NoProbe == [pc |-> "off", op |-> "", outcome |-> "", kind |-> "", id |-> Undefined,
            body |-> NoBody, status |-> 0, message |-> "", result |-> NoBody,
            data |-> <<>>, sha |-> NoSha, src |-> "", wrote |-> FALSE,
            written |-> <<>>, submits |-> 0]

\* a handler of the client component that is not running
NoCall == [pc |-> "idle", kind |-> "", id |-> Undefined, data |-> NoBody,
           original |-> NoBody, before |-> <<>>, alone |-> TRUE, seq |-> 0,
           status |-> 0, result |-> NoBody]

NoUi == [pc |-> "off", events |-> <<>>, form |-> NoCall, dialog |-> NoCall, n |-> 0,
         last |-> [NoCall EXCEPT !.pc = "none"],
         categoryFilter |-> "all", searchQuery |-> ""]

Init ==
    /\ store = FileOf(Seed)
    /\ cache = NoEntry
    /\ req = [r \in Requests |-> Idle]
    /\ lastRead = NoRead
    /\ job = NoJob
    /\ auth = NoAuth
    /\ list = NoList
    /\ probe = NoProbe
    /\ ui = NoUi

(***************************************************************************)
(* The route handlers, one action per step between two awaited calls.      *)
(***************************************************************************)
\* requireOwner(), request.json() and the validation of the body
accept(r, ops) ==
    /\ req[r].pc = "idle"
    /\ \E caller \in Callers, op \in ops :
        LET owner == requireOwner(caller).some
            invalid == CASE op.kind = "POST" -> ValidatePOST(op.body)
                         [] op.kind = "PUT" -> ValidatePUT(op.body)
                         [] OTHER -> ""
            base == [req[r] EXCEPT !.kind = op.kind, !.id = op.id, !.body = op.body,
                                   !.isOwner = caller.isOwner]
        IN  req' = [req EXCEPT ![r] =
                IF ~owner
                THEN [base EXCEPT !.pc = "done", !.status = 401, !.message = "Unauthorized"]
                ELSE IF invalid # ""
                THEN [base EXCEPT !.pc = "done", !.status = 400, !.message = invalid]
                ELSE [base EXCEPT !.pc = "read"]]

\* a request enters its handler
StartWith(r, ops) ==
    /\ accept(r, ops)
    /\ UNCHANGED <<store, cache, lastRead, job, auth, list, probe, ui>>

Start(r) == StartWith(r, Ops)

\* what the closure computes from the data it read: the mutated data, the
\* value it will return, or the NOT_FOUND it throws
mutate(r, kind, id, body, data, k) ==
    LET index == findIndex(data, id)
    IN  CASE kind = "POST" ->
                LET e == newEvent(body, randomUUID(r, k))
                IN  [outcome |-> "ok", data |-> Append(data, e), result |-> e]
          [] kind = "PUT" ->
                IF index = 0 THEN [outcome |-> "NOT_FOUND", data |-> data, result |-> NoBody]
                ELSE LET e == mergeEvent(data[index], body, id)
                     IN  [outcome |-> "ok", data |-> [data EXCEPT ![index] = e],
                          result |-> e]
          [] OTHER ->
                IF index = 0 THEN [outcome |-> "NOT_FOUND", data |-> data, result |-> NoBody]
                ELSE [outcome |-> "ok", data |-> filterOut(data, id), result |-> NoBody]

\* the end of one call of the retried closure inside withRetry: the closure
\* returned (outcome "ok") or threw; withRetry returns, sleeps and loops, or
\* rethrows into the catch block of the handler
settle(q, outcome) ==
    LET decision == withRetry(outcome, q.attempt, DefaultMaxRetries)
    IN  CASE decision = "return" -> [q EXCEPT !.pc = "revalidate", !.last = outcome]
          [] decision = "retry" ->
                [q EXCEPT !.pc = "read", !.attempt = @ + 1, !.last = outcome,
                          !.delays = Append(@, backoffMs(q.attempt))]
          [] OTHER ->
                [q EXCEPT !.pc = "done", !.err = outcome, !.last = outcome,
                          !.status = errorStatus(q.kind, outcome),
                          !.message = errorMessage(q.kind, outcome)]

\* bookkeeping on the other requests when a write of some request lands:
\* whether it landed between their first read and their first write, or later
noteWrite(q) ==
    IF q.pc \notin {"read", "write"} \/ q.reads = 0 THEN q
    ELSE IF q.writes = 0 THEN [q EXCEPT !.raced = IF @ < 2 THEN @ + 1 ELSE @]
    ELSE [q EXCEPT !.late = TRUE]

\* one call of the closure up to its saveEvents: getEvents(), then the mutation
Read(r) ==
    /\ req[r].pc = "read"
    /\ loopTest(req[r].attempt, DefaultMaxRetries)
    /\ \E up \in BOOLEAN :
        LET q == req[r]
            k == q.invocations + 1
            got == getEvents(up)
            m == mutate(r, q.kind, q.id, q.body, got.data, k)
            outcome == IF got.outcome # "ok" THEN got.outcome ELSE m.outcome
            called == [q EXCEPT !.invocations = k, !.reads = @ + 1, !.src = got.src,
                                !.fresh = (got.outcome = "ok") =>
                                    (got.sha = store.sha /\ got.data = StoredEvents)]
        IN  /\ req' = [req EXCEPT ![r] =
                    IF outcome = "ok"
                    THEN [called EXCEPT !.pc = "write", !.data = m.data, !.sha = got.sha,
                                        !.result = m.result]
                    ELSE settle(called, outcome)]
            /\ cache' = cacheAfterFetch(up)
    /\ UNCHANGED <<store, lastRead, job, auth, list, probe, ui>>

\* the saveEvents() call of the closure and what withRetry does with its outcome
Write(r) ==
    /\ req[r].pc = "write"
    /\ \E up \in BOOLEAN :
        LET q == req[r]
            res == saveEvents(q.data, q.sha, up)
            called == [q EXCEPT !.writes = @ + 1, !.saved = res.sha, !.reached = up]
        IN  /\ store' = res.file
            /\ req' = [p \in Requests |->
                    IF p = r THEN settle(called, res.outcome)
                    ELSE IF res.outcome = "ok" THEN noteWrite(req[p])
                    ELSE req[p]]
            /\ lastRead' = IF res.outcome = "ok" /\ lastRead.some
                           THEN [lastRead EXCEPT !.written = TRUE]
                           ELSE lastRead
    /\ UNCHANGED <<cache, job, auth, list, probe, ui>>

\* revalidateTag("events") and the success response
Revalidate(r) ==
    /\ req[r].pc = "revalidate"
    /\ cache' = NoEntry
    /\ req' = [req EXCEPT ![r] = [@ EXCEPT !.pc = "done",
                                           !.status = successStatus(req[r].kind)]]
    /\ lastRead' = IF lastRead.some THEN [lastRead EXCEPT !.invalidated = TRUE]
                   ELSE lastRead
    /\ UNCHANGED <<store, job, auth, list, probe, ui>>

\* the cache entry reaches its revalidate: 3600 lifetime
Expire ==
    /\ cache.full
    /\ cache' = NoEntry
    /\ lastRead' = IF lastRead.some THEN [lastRead EXCEPT !.invalidated = TRUE]
                   ELSE lastRead
    /\ UNCHANGED <<store, req, job, auth, list, probe, ui>>

\* GET /api/events: the public list
GET ==
    /\ \E up \in BOOLEAN :
        LET got == getEvents(up)
        IN  /\ got.outcome = "ok"
            /\ cache' = cacheAfterFetch(up)
            /\ lastRead' = [some |-> TRUE, data |-> got.data, sha |-> got.sha,
                            written |-> FALSE, invalidated |-> FALSE,
                            again |-> lastRead.some /\ ~lastRead.written
                                      /\ ~lastRead.invalidated]
    /\ UNCHANGED <<store, req, job, auth, list, probe, ui>>

Next ==
    \/ \E r \in Requests : Start(r)
    \/ \E r \in Requests : Read(r)
    \/ \E r \in Requests : Write(r)
    \/ \E r \in Requests : Revalidate(r)
    \/ Expire
    \/ GET

Spec == Init /\ [][Next]_vars

(***************************************************************************)
(* The same handlers over the requests of FieldOps.                        *)
(***************************************************************************)
StartField(r) == StartWith(r, FieldOps)

NextFields ==
    \/ \E r \in Requests : StartField(r)
    \/ \E r \in Requests : Read(r)
    \/ \E r \in Requests : Write(r)
    \/ \E r \in Requests : Revalidate(r)
    \/ Expire

SpecFields == Init /\ [][NextFields]_vars

(***************************************************************************)
(* One mutation request next to list requests whose fetch of the file is   *)
(* followed through its three moments: the cache lookup, the answer of     *)
(* GitHub, and the arrival of that answer, which fills the cache.          *)
(***************************************************************************)
MaxLists == 2

Mutator == "A"

\* GET /api/events enters getEvents(): fetch looks the cache up; a hit is the
\* response, a miss sends the request to GitHub
ListStart ==
    /\ list.pc \in {"off", "done", "failed"}
    /\ list.lists < MaxLists
    /\ list' =
        LET entered == [list EXCEPT !.lists = @ + 1,
                                    !.after = {r \in Requests :
                                        /\ req[r].pc = "done"
                                        /\ req[r].status = successStatus(req[r].kind)}]
        IN  IF cache.full
            THEN [entered EXCEPT !.pc = "done", !.res = NoEntry,
                                 !.data = parse(fromBase64(cache.content)),
                                 !.sha = cache.sha]
            ELSE [entered EXCEPT !.pc = "sent", !.res = NoEntry, !.data = <<>>,
                                 !.sha = NoSha]
    /\ UNCHANGED <<store, cache, req, lastRead, job, auth, probe, ui>>

\* GitHub answers the request with the file as it is now, or the call fails
\* and getEvents() throws
ListAnswer ==
    /\ list.pc = "sent"
    /\ \E up \in BOOLEAN :
        list' = IF up
                THEN [list EXCEPT !.pc = "answered",
                                  !.res = [full |-> TRUE, content |-> store.content,
                                           sha |-> store.sha]]
                ELSE [list EXCEPT !.pc = "failed"]
    /\ UNCHANGED <<store, cache, req, lastRead, job, auth, probe, ui>>

\* the answer arrives: fetch stores it in the cache under the tag and
\* getEvents() returns what it parsed
ListFinish ==
    /\ list.pc = "answered"
    /\ cache' = list.res
    /\ list' = [list EXCEPT !.pc = "done", !.res = NoEntry,
                             !.data = parse(fromBase64(list.res.content)),
                             !.sha = list.res.sha]
    /\ UNCHANGED <<store, req, lastRead, job, auth, probe, ui>>

NextList ==
    \/ StartField(Mutator)
    \/ Read(Mutator)
    \/ Write(Mutator)
    \/ Revalidate(Mutator)
    \/ Expire
    \/ ListStart
    \/ ListAnswer
    \/ ListFinish

SpecList == Init /\ [][NextList]_vars

(***************************************************************************)
(* Authentication on its own: one browser signing in and out, the page     *)
(* and the mutation handlers asking for its session, for every value of    *)
(* GITHUB_OWNER and every token the JWT type admits.                       *)
(***************************************************************************)
\* process.env.GITHUB_OWNER: unset, or a GitHub login
Envs == {Undefined} \cup Logins

\* the tokens of the JWT type: username is optional
Tokens == {[some |-> TRUE, username |-> u] : u \in {Undefined} \cup Logins}

InitAuth ==
    /\ store = FileOf(Seed)
    /\ cache = NoEntry
    /\ req = [r \in Requests |-> Idle]
    /\ lastRead = NoRead
    /\ job = NoJob
    /\ list = NoList
    /\ probe = NoProbe
    /\ ui = NoUi
    /\ \E env \in Envs, token \in {NoToken} \cup Tokens :
        auth = [NoAuth EXCEPT !.pc = "on", !.env = env, !.token = token]

\* the OAuth callback: profile(), then the jwt callback with the user
SignIn ==
    /\ \E login \in Logins : auth' = [auth EXCEPT !.token = SignedIn(login)]
    /\ UNCHANGED <<store, cache, req, lastRead, job, list, probe, ui>>

\* signOut(): the session cookie is cleared
SignOut ==
    /\ auth.token.some
    /\ auth' = [auth EXCEPT !.token = NoToken]
    /\ UNCHANGED <<store, cache, req, lastRead, job, list, probe, ui>>

\* the page calls auth() and passes session?.isOwner ?? false to the UI
PageAuth ==
    /\ auth' = [auth EXCEPT !.used = auth.token,
                             !.session = authSession(auth.token, auth.env),
                             !.passed = ""]
    /\ UNCHANGED <<store, cache, req, lastRead, job, list, probe, ui>>

\* a mutation handler calls requireOwner()
RequireOwner ==
    /\ LET s == authSession(auth.token, auth.env)
       IN  auth' = [auth EXCEPT !.used = auth.token, !.session = s,
                                !.passed = IF requireOwner(s).some THEN "session"
                                           ELSE "null"]
    /\ UNCHANGED <<store, cache, req, lastRead, job, list, probe, ui>>

NextAuth == SignIn \/ SignOut \/ PageAuth \/ RequireOwner

SpecAuth == InitAuth /\ [][NextAuth]_vars

(***************************************************************************)
(* The store client on its own: one caller that reads, writes any          *)
(* collection with the token it holds, and invalidates the cache.          *)
(***************************************************************************)
MaxCollectionLen == 2

\* an event whose optional fields are all null
Bare ==
    [id |-> Str("550e8400-e29b-41d4-a716-446655440002", 36), year |-> Num(-44),
     name |-> Str("X", 1), category |-> Cat("event"), endYear |-> Null,
     region |-> Null, description |-> Null]

Events == {Seed[1], Seed[2], Bare}

\* the collections of distinct events, up to the bound
Collections ==
    {c \in UNION {[1..n -> Events] : n \in 0..MaxCollectionLen} :
        \A i \in DOMAIN c : \A j \in DOMAIN c : i # j => c[i] # c[j]}

InitStore ==
    /\ store = FileOf(Seed)
    /\ cache = NoEntry
    /\ req = [r \in Requests |-> Idle]
    /\ lastRead = NoRead
    /\ job = NoJob
    /\ auth = NoAuth
    /\ list = NoList
    /\ probe = [NoProbe EXCEPT !.pc = "on"]
    /\ ui = NoUi

\* getEvents()
StoreRead ==
    /\ probe.pc = "on"
    /\ \E up \in BOOLEAN :
        LET got == getEvents(up)
        IN  /\ cache' = cacheAfterFetch(up)
            /\ probe' = IF got.outcome = "ok"
                         THEN [probe EXCEPT !.op = "read", !.outcome = "ok",
                                            !.data = got.data, !.sha = got.sha,
                                            !.src = got.src]
                         ELSE [probe EXCEPT !.op = "read", !.outcome = got.outcome]
    /\ UNCHANGED <<store, req, lastRead, job, auth, list, ui>>

\* saveEvents(events, sha, message) with the token of the last read
StoreWrite ==
    /\ probe.pc = "on"
    /\ \E up \in BOOLEAN, events \in Collections :
        LET res == saveEvents(events, probe.sha, up)
        IN  /\ store' = res.file
            /\ probe' = IF res.outcome = "ok"
                         THEN [probe EXCEPT !.op = "write", !.outcome = "ok",
                                            !.wrote = TRUE, !.written = events]
                         ELSE [probe EXCEPT !.op = "write", !.outcome = res.outcome]
    /\ UNCHANGED <<cache, req, lastRead, job, auth, list, ui>>

\* revalidateTag("events")
StoreInvalidate ==
    /\ probe.pc = "on"
    /\ cache.full
    /\ cache' = NoEntry
    /\ probe' = [probe EXCEPT !.op = "invalidate", !.outcome = "ok"]
    /\ UNCHANGED <<store, req, lastRead, job, auth, list, ui>>

NextStore == StoreRead \/ StoreWrite \/ StoreInvalidate

SpecStore == InitStore /\ [][NextStore]_vars

(***************************************************************************)
(* The handlers one request at a time, next to commits made to             *)
(* data/events.json on GitHub itself between two requests.                 *)
(***************************************************************************)
MaxEdits == 1

\* mutations of the owner's UI: a create, updates of the two seed events,
\* and an update of an event that does not exist
AloneOps ==
    { [kind |-> "POST", id |-> Undefined,
       body |-> [year |-> Num(1969), name |-> Str("Moon", 4), category |-> Cat("event")]],
      [kind |-> "PUT", id |-> Id1, body |-> [year |-> Num(-27), endYear |-> Num(476)]],
      [kind |-> "PUT", id |-> Id5, body |-> [name |-> Str("Y", 1)]],
      [kind |-> "PUT", id |-> IdMissing, body |-> [name |-> Str("Y", 1)]] }

\* what a commit made on GitHub itself leaves in the file: an event
\* appended by hand, or the events reordered
Committed == {<<Seed[1], Seed[2], Bare>>, <<Seed[2], Seed[1]>>}

\* no request is between its start and its response
Quiet == \A p \in Requests : req[p].pc \in {"idle", "done"}

\* a request enters its handler while no other is running; the file as it
\* is then is noted next to the name of the request
StartAlone(r) ==
    /\ Quiet
    /\ accept(r, AloneOps)
    /\ probe' = [probe EXCEPT !.op = "start", !.src = r, !.data = StoredEvents,
                              !.sha = store.sha]
    /\ UNCHANGED <<store, cache, lastRead, job, auth, list, ui>>

\* the page is rendered: page.tsx reads the events through the cache
PageLoad ==
    /\ \E up \in BOOLEAN :
        /\ getEvents(up).outcome = "ok"
        /\ cache' = cacheAfterFetch(up)
    /\ UNCHANGED <<store, req, lastRead, job, auth, list, probe, ui>>

\* someone commits another collection to data/events.json on GitHub, not
\* through the application: the file and its blob sha change, the read
\* cache of the application is not told
DirectEdit ==
    /\ Quiet
    /\ probe.submits < MaxEdits
    /\ \E events \in Committed :
        /\ FileOf(events) # store
        /\ store' = FileOf(events)
    /\ probe' = [probe EXCEPT !.submits = @ + 1]
    /\ UNCHANGED <<cache, req, lastRead, job, auth, list, ui>>

NextEdits ==
    \/ \E r \in Requests : StartAlone(r)
    \/ \E r \in Requests : Read(r)
    \/ \E r \in Requests : Write(r)
    \/ \E r \in Requests : Revalidate(r)
    \/ Expire
    \/ PageLoad
    \/ DirectEdit

SpecEdits == Init /\ [][NextEdits]_vars

(***************************************************************************)
(* The owner sending requests one after another, each handler run from     *)
(* its validation to its response in one step with GitHub answering, over  *)
(* bodies that vary one field of a valid body through its edge values.     *)
(***************************************************************************)
MaxSubmits == 2

YearValues ==
    {Num(-10000), Num(-9999), Num(1500), Num(9999), Num(10000), Infinite,
     Str("1969", 4), Null}

EndYearValues ==
    {Num(-10000), Num(-9999), Num(1000), Num(9999), Num(10000), Str("1969", 4), Null}

NameValues ==
    {Str("Moon", 4), Str("Moon", MaxNameLen), Str("Moon", MaxNameLen + 1), Str("", 3),
     Str("", 0), Num(7), Null}

RegionValues == {Str("Asia", 4), Str("Asia", MaxRegionLen), Str("Asia", MaxRegionLen + 1),
                 Num(3), Null}

DescriptionValues ==
    {Str("Text", MaxDescriptionLen), Str("Text", MaxDescriptionLen + 1), Bool(TRUE), Null}

CategoryValues == {Cat("person"), Cat("war"), Str("", 0), Null}

\* one field of a body and a value for it; note is a field no event has
FieldValues ==
    ({"year"} \X YearValues) \cup ({"endYear"} \X EndYearValues)
    \cup ({"name"} \X NameValues) \cup ({"region"} \X RegionValues)
    \cup ({"description"} \X DescriptionValues)
    \cup ({"category"} \X CategoryValues)
    \cup {<<"note", Str("draft", 5)>>}

\* a body every check of POST accepts
BaseBody == [year |-> Num(1500), name |-> Str("Moon", 4), category |-> Cat("person")]

BodyOps ==
    {[kind |-> "POST", id |-> Undefined, body |-> (fv[1] :> fv[2]) @@ BaseBody] :
        fv \in FieldValues}
    \cup {[kind |-> "PUT", id |-> Id1, body |-> (fv[1] :> fv[2])] : fv \in FieldValues}
    \cup {[kind |-> "DELETE", id |-> Id5, body |-> NoBody]}

InitBodies ==
    /\ store = FileOf(Seed)
    /\ cache = NoEntry
    /\ req = [r \in Requests |-> Idle]
    /\ lastRead = NoRead
    /\ job = NoJob
    /\ auth = NoAuth
    /\ list = NoList
    /\ probe = [NoProbe EXCEPT !.pc = "on"]
    /\ ui = NoUi

\* one handler run from request.json() to its response with no other
\* request in between: the response, and the file and the read cache it
\* leaves (up: the calls to GitHub are answered)
respond(r, kind, id, body, up, k) ==
    LET invalid == CASE kind = "POST" -> ValidatePOST(body)
                     [] kind = "PUT" -> ValidatePUT(body)
                     [] OTHER -> ""
        got == getEvents(up)
        m == mutate(r, kind, id, body, got.data, k)
        res == saveEvents(m.data, got.sha, up)
        outcome == IF got.outcome # "ok" THEN got.outcome
                   ELSE IF m.outcome # "ok" THEN m.outcome
                   ELSE res.outcome
    IN  IF invalid # ""
        THEN [status |-> 400, message |-> invalid, outcome |-> "invalid",
              result |-> NoBody, file |-> store, cache |-> cache]
        ELSE IF outcome # "ok"
        THEN [status |-> errorStatus(kind, outcome),
              message |-> errorMessage(kind, outcome), outcome |-> outcome,
              result |-> NoBody, file |-> store, cache |-> cacheAfterFetch(up)]
        ELSE [status |-> successStatus(kind), message |-> "", outcome |-> "ok",
              result |-> m.result, file |-> res.file, cache |-> NoEntry]

\* one request of the owner, answered by GitHub
Submit ==
    /\ probe.pc = "on"
    /\ probe.submits < MaxSubmits
    /\ \E op \in BodyOps :
        LET res == respond("P", op.kind, op.id, op.body, TRUE, probe.submits + 1)
        IN  /\ probe' = [probe EXCEPT !.op = "submit", !.kind = op.kind, !.id = op.id,
                                      !.body = op.body, !.submits = @ + 1,
                                      !.status = res.status, !.message = res.message,
                                      !.outcome = res.outcome, !.result = res.result]
            /\ store' = res.file
            /\ cache' = res.cache
    /\ UNCHANGED <<req, lastRead, job, auth, list, ui>>

NextBodies == Submit

SpecBodies == InitBodies /\ [][NextBodies]_vars

(***************************************************************************)
(* The client component TimelineApp: the list it shows and its three       *)
(* mutation handlers.  The form modal runs one add or edit at a time and   *)
(* the delete dialog one delete at a time (their submit buttons are        *)
(* disabled while loading); closing a dialog does not cancel its request.  *)
(***************************************************************************)
MaxCalls == 3

\* what EventFormModal passes to onSubmit: every field but id
FormData ==
    {[year |-> Num(1969), name |-> Str("Moon", 4), category |-> Cat("event"),
      endYear |-> Null, region |-> Null, description |-> Null],
     [year |-> Num(10000), name |-> Str("Far", 3), category |-> Cat("event"),
      endYear |-> Null, region |-> Str("Asia", 4), description |-> Null]}

\* { ...data, id: tempId }
optimisticEvent(data, tempId) ==
    [f \in DOMAIN data \cup {"id"} |-> IF f = "id" THEN tempId ELSE data[f]]

\* prev.map(e => e.id === id ? event : e)
replaceById(prev, id, event) ==
    [i \in 1..Len(prev) |-> IF Field(prev[i], "id") = id THEN event ELSE prev[i]]

\* prev => [...prev, optimisticEvent]
addOptimistic(prev, event) == Append(prev, event)

\* prev => prev.map(e => e.id === tempId ? savedEvent : e)
addSuccess(prev, tempId, savedEvent) == replaceById(prev, tempId, savedEvent)

\* prev => prev.filter(e => e.id !== tempId)
addFailure(prev, tempId) == filterOut(prev, tempId)

\* prev => prev.map(e => e.id === id ? { ...e, ...data } : e)
editOptimistic(prev, id, data) ==
    [i \in 1..Len(prev) |->
        IF Field(prev[i], "id") = id
        THEN [f \in DOMAIN prev[i] \cup DOMAIN data |->
                 IF f \in DOMAIN data THEN data[f] ELSE prev[i][f]]
        ELSE prev[i]]

\* prev => prev.map(e => e.id === id ? updated : e)
editSuccess(prev, id, updated) == replaceById(prev, id, updated)

editFailureKeepsEdit(prev, id, original) == prev

\* prev => prev.map(e => e.id === id ? original : e)
editFailure(prev, id, original) == replaceById(prev, id, original)

\* prev => prev.filter(e => e.id !== id)
deleteOptimistic(prev, id) == filterOut(prev, id)

deleteFailureDropsEvent(prev, original) == prev

\* prev => [...prev, original]
deleteFailure(prev, original) == Append(prev, original)

\* res.ok
ok(status) == status \in 200..299

\* the ids a handler can be called with: those of the entries shown, and
\* one of an entry no longer in the list
UiIds == {Field(ui.events[i], "id") : i \in 1..Len(ui.events)} \cup {IdMissing}

\* page.tsx renders TimelineApp with the events read from the store
InitClient ==
    /\ store = FileOf(Seed)
    /\ cache = [full |-> TRUE, content |-> FileOf(Seed).content, sha |-> FileOf(Seed).sha]
    /\ req = [r \in Requests |-> Idle]
    /\ lastRead = NoRead
    /\ job = NoJob
    /\ auth = NoAuth
    /\ list = NoList
    /\ probe = NoProbe
    /\ ui = [NoUi EXCEPT !.pc = "on", !.events = Seed]

\* a handler call that returned without sending a request
returned(kind, id) ==
    [ui EXCEPT !.n = @ + 1,
               !.last = [NoCall EXCEPT !.pc = "returned", !.kind = kind, !.id = id,
                                        !.seq = ui.n + 1]]

\* handleAddEvent up to its await fetch
handleAddEvent ==
    /\ ui.pc = "on" /\ ui.form.pc = "idle" /\ ui.n < MaxCalls
    /\ \E data \in FormData :
        LET tempId == randomUUID("T", ui.n + 1)
        IN  ui' = [ui EXCEPT
                !.events = addOptimistic(@, optimisticEvent(data, tempId)),
                !.form = [NoCall EXCEPT !.pc = "sent", !.kind = "add", !.id = tempId,
                                        !.data = data, !.before = ui.events,
                                        !.alone = (ui.dialog.pc = "idle"),
                                        !.seq = ui.n + 1],
                !.dialog.alone = (ui.dialog.pc = "idle"),
                !.n = @ + 1]
    /\ UNCHANGED <<store, cache, req, lastRead, job, auth, list, probe>>

\* handleEditEvent up to its await fetch, or to its early return
handleEditEvent ==
    /\ ui.pc = "on" /\ ui.form.pc = "idle" /\ ui.n < MaxCalls
    /\ \E id \in UiIds : \E data \in FormData :
        LET index == findIndex(ui.events, id)
        IN  IF index = 0 THEN ui' = returned("edit", id)
            ELSE ui' = [ui EXCEPT
                    !.events = editOptimistic(@, id, data),
                    !.form = [NoCall EXCEPT !.pc = "sent", !.kind = "edit", !.id = id,
                                            !.data = data, !.original = ui.events[index],
                                            !.before = ui.events,
                                            !.alone = (ui.dialog.pc = "idle"),
                                            !.seq = ui.n + 1],
                    !.dialog.alone = (ui.dialog.pc = "idle"),
                    !.n = @ + 1]
    /\ UNCHANGED <<store, cache, req, lastRead, job, auth, list, probe>>

\* handleDeleteEvent up to its await fetch, or to its early return
handleDeleteEvent ==
    /\ ui.pc = "on" /\ ui.dialog.pc = "idle" /\ ui.n < MaxCalls
    /\ \E id \in UiIds :
        LET index == findIndex(ui.events, id)
        IN  IF index = 0 THEN ui' = returned("delete", id)
            ELSE ui' = [ui EXCEPT
                    !.events = deleteOptimistic(@, id),
                    !.dialog = [NoCall EXCEPT !.pc = "sent", !.kind = "delete", !.id = id,
                                              !.original = ui.events[index],
                                              !.before = ui.events,
                                              !.alone = (ui.form.pc = "idle"),
                                              !.seq = ui.n + 1],
                    !.form.alone = (ui.form.pc = "idle"),
                    !.n = @ + 1]
    /\ UNCHANGED <<store, cache, req, lastRead, job, auth, list, probe>>

\* the request a handler call sends
requestOf(call) ==
    CASE call.kind = "add" -> [kind |-> "POST", id |-> Undefined, body |-> call.data]
      [] call.kind = "edit" -> [kind |-> "PUT", id |-> call.id, body |-> call.data]
      [] OTHER -> [kind |-> "DELETE", id |-> call.id, body |-> NoBody]

\* the server handles the request of the form's or the dialog's call and
\* answers with its status and the JSON of its event
Serve(slot) ==
    /\ ui.pc = "on" /\ ui[slot].pc = "sent"
    /\ \E up \in BOOLEAN :
        LET q == requestOf(ui[slot])
            res == respond("S", q.kind, q.id, q.body, up, ui[slot].seq)
        IN  /\ ui' = [ui EXCEPT ![slot].pc = "answered", ![slot].status = res.status,
                                ![slot].result = stringifyEvent(res.result)]
            /\ store' = res.file
            /\ cache' = res.cache
    /\ UNCHANGED <<req, lastRead, job, auth, list, probe>>

\* the handler resumes after its await: the rest of its try block, or its
\* catch block
Settle(slot) ==
    /\ ui.pc = "on" /\ ui[slot].pc = "answered"
    /\ LET call == ui[slot]
           events ==
               CASE call.kind = "add" ->
                       IF ok(call.status) THEN addSuccess(ui.events, call.id, call.result)
                       ELSE addFailure(ui.events, call.id)
                 [] call.kind = "edit" ->
                       IF ok(call.status) THEN editSuccess(ui.events, call.id, call.result)
                       ELSE editFailure(ui.events, call.id, call.original)
                 [] OTHER ->
                       IF ok(call.status) THEN ui.events
                       ELSE deleteFailure(ui.events, call.original)
       IN  ui' = [ui EXCEPT !.events = events, ![slot] = NoCall,
                            !.last = [call EXCEPT !.pc = "settled"]]
    /\ UNCHANGED <<store, cache, req, lastRead, job, auth, list, probe>>

NextClient ==
    \/ handleAddEvent
    \/ handleEditEvent
    \/ handleDeleteEvent
    \/ \E slot \in {"form", "dialog"} : Serve(slot)
    \/ \E slot \in {"form", "dialog"} : Settle(slot)

SpecClient == InitClient /\ [][NextClient]_vars

(***************************************************************************)
(* Year formatting: formatYear and formatYearRange, applied to arguments   *)
(* drawn from the years an event can carry.                                *)
(***************************************************************************)
\* Math.abs(n)
abs(n) == IF n < 0 THEN -n ELSE n

\* formatYear(year): `${Math.abs(year)} BC` below zero, else `${year}`
formatYear(year) ==
    IF year.n < 0 THEN ToString(abs(year.n)) \o " BC" ELSE ToString(year.n)

formatYearRangeTruthy(year, endYear) ==
    IF Truthy(endYear) THEN formatYear(year) \o "-" \o formatYear(endYear)
    ELSE formatYear(year)

\* formatYearRange(year, endYear): endYear != null is false for null and
\* for undefined only
formatYearRange(year, endYear) ==
    IF endYear.t \notin {"null", "undefined"}
    THEN formatYear(year) \o "-" \o formatYear(endYear)
    ELSE formatYear(year)

YearInputs ==
    {Num(-9999), Num(-3000), Num(-44), Num(-27), Num(-1), Num(0), Num(1), Num(476),
     Num(1440), Num(1945), Num(2024), Num(9999)}

\* the arguments of one call: year, and endYear when it is passed
YearArgs ==
    {[year |-> y] : y \in YearInputs}
    \cup [year : YearInputs, endYear : YearInputs \cup {Null}]

InitFormat ==
    /\ store = FileOf(Seed)
    /\ cache = NoEntry
    /\ req = [r \in Requests |-> Idle]
    /\ lastRead = NoRead
    /\ job = NoJob
    /\ auth = NoAuth
    /\ list = NoList
    /\ \E args \in YearArgs : probe = [NoProbe EXCEPT !.pc = "format", !.body = args]
    /\ ui = NoUi

\* formatYear(year) is called
CallFormatYear ==
    /\ probe.pc = "format" /\ probe.op = ""
    /\ probe' = [probe EXCEPT !.op = "formatYear",
                              !.message = formatYear(probe.body.year)]
    /\ UNCHANGED <<store, cache, req, lastRead, job, auth, list, ui>>

\* formatYearRange(event.year, event.endYear) is called
CallFormatYearRange ==
    /\ probe.pc = "format" /\ probe.op = ""
    /\ probe' = [probe EXCEPT !.op = "formatYearRange",
                              !.message = formatYearRange(probe.body.year,
                                                          Field(probe.body, "endYear"))]
    /\ UNCHANGED <<store, cache, req, lastRead, job, auth, list, ui>>

NextFormat == CallFormatYear \/ CallFormatYearRange

SpecFormat == InitFormat /\ [][NextFormat]_vars

(***************************************************************************)
(* The displayed list of TimelineApp: filteredEvents, recomputed at every  *)
(* render from the client list, the category filter and the search query.  *)
(***************************************************************************)
MaxViewLen == 3

RECURSIVE toLowerCase(_)
\* s.toLowerCase(), character by character
toLowerCase(s) ==
    IF Len(s) = 0 THEN ""
    ELSE LET UpperCase == "ABCDEFGHIJKLMNOPQRSTUVWXYZ"
             LowerCase == "abcdefghijklmnopqrstuvwxyz"
             c == SubSeq(s, 1, 1)
             at == {i \in 1..Len(UpperCase) : SubSeq(UpperCase, i, i) = c}
             low == IF at = {} THEN c
                    ELSE LET i == CHOOSE j \in at : TRUE IN SubSeq(LowerCase, i, i)
         IN  low \o toLowerCase(SubSeq(s, 2, Len(s)))

RECURSIVE trim(_)
\* s.trim()
trim(s) ==
    IF Len(s) = 0 THEN ""
    ELSE IF SubSeq(s, 1, 1) = " " THEN trim(SubSeq(s, 2, Len(s)))
    ELSE IF SubSeq(s, Len(s), Len(s)) = " " THEN trim(SubSeq(s, 1, Len(s) - 1))
    ELSE s

\* s.includes(q)
includes(s, q) == \E i \in 1..(Len(s) - Len(q) + 1) : SubSeq(s, i, i + Len(q) - 1) = q

RECURSIVE sortByYearDesc(_)
\* [...result].sort((a, b) => b.year - a.year) on a copy: a stable sort,
\* the larger year first
sortByYearDesc(result) ==
    IF Len(result) <= 1 THEN result
    ELSE LET front == sortByYearDesc(SubSeq(result, 1, Len(result) - 1))
             e == result[Len(result)]
             keep == {i \in 1..Len(front) : front[i].year.n >= e.year.n}
             k == Cardinality(keep)
         IN  IF \A i \in 1..Len(front) : i \in keep <=> i <= k
             THEN SubSeq(front, 1, k) \o <<e>> \o SubSeq(front, k + 1, Len(front))
             ELSE front \o <<e>>

\* the two filter steps of filteredEvents
filterEvents(events, categoryFilter, searchQuery) ==
    LET byCategory ==
            IF categoryFilter # "all"
            THEN SelectSeq(events, LAMBDA e : e.category = Cat(categoryFilter))
            ELSE events
        q == toLowerCase(searchQuery)
    IN  IF trim(searchQuery) # ""
        THEN SelectSeq(byCategory,
                 LAMBDA e : \/ includes(toLowerCase(e.name.s), q)
                            \/ (Truthy(Field(e, "region"))
                                  /\ includes(toLowerCase(e.region.s), q)))
        ELSE byCategory

filteredEventsSortsInPlace(events, categoryFilter, searchQuery) ==
    LET sorted == sortByYearDesc(filterEvents(events, categoryFilter, searchQuery))
    IN  [shown |-> sorted,
         events |-> IF categoryFilter = "all" /\ trim(searchQuery) = ""
                    THEN sorted ELSE events]

\* filteredEvents: the list handed to Timeline, and the client list after
\* the computation
filteredEvents(events, categoryFilter, searchQuery) ==
    [shown |-> sortByYearDesc(filterEvents(events, categoryFilter, searchQuery)),
     events |-> events]

\* the events a client list is drawn from: the seed, an event without a
\* region, and two more of which one shares its year with a seed event
ViewEvents ==
    {Seed[1], Seed[2], Bare,
     [id |-> Str("550e8400-e29b-41d4-a716-446655440003", 36), year |-> Num(1969),
      name |-> Str("Moon landing", 12), category |-> Cat("event"), endYear |-> Null,
      region |-> Null, description |-> Null],
     [id |-> Str("550e8400-e29b-41d4-a716-446655440004", 36), year |-> Num(1789),
      name |-> Str("George Washington", 17), category |-> Cat("person"),
      endYear |-> Num(1797), region |-> Str("America", 7), description |-> Null]}

ViewLists ==
    {c \in UNION {[1..n -> ViewEvents] : n \in 0..MaxViewLen} :
        \A i \in DOMAIN c : \A j \in DOMAIN c : i # j => c[i] # c[j]}

\* what the category select and the search box can hold
CategoryFilters == {"all", "event", "invention", "discovery"}
SearchQueries == {"", "  ", "on", "FRANCE", "x", " l", "mo "}

\* one render of TimelineApp: the useMemo of filteredEvents
render(u, p) ==
    LET r == filteredEvents(u.events, u.categoryFilter, u.searchQuery)
    IN  [ui |-> [u EXCEPT !.events = r.events],
         probe |-> [p EXCEPT !.pc = "view", !.op = "render", !.data = r.shown]]

\* the first render, with the events the page passes in
InitView ==
    /\ store = FileOf(Seed)
    /\ cache = NoEntry
    /\ req = [r \in Requests |-> Idle]
    /\ lastRead = NoRead
    /\ job = NoJob
    /\ auth = NoAuth
    /\ list = NoList
    /\ \E events \in ViewLists :
        LET first == render([NoUi EXCEPT !.pc = "view", !.events = events],
                            [NoProbe EXCEPT !.written = events])
        IN  ui = first.ui /\ probe = first.probe

\* the category select changes and the component renders again
setCategoryFilter ==
    /\ ui.pc = "view"
    /\ \E c \in CategoryFilters :
        LET next == render([ui EXCEPT !.categoryFilter = c], probe)
        IN  ui' = next.ui /\ probe' = next.probe
    /\ UNCHANGED <<store, cache, req, lastRead, job, auth, list>>

\* the search box changes and the component renders again
setSearchQuery ==
    /\ ui.pc = "view"
    /\ \E q \in SearchQueries :
        LET next == render([ui EXCEPT !.searchQuery = q], probe)
        IN  ui' = next.ui /\ probe' = next.probe
    /\ UNCHANGED <<store, cache, req, lastRead, job, auth, list>>

NextView == setCategoryFilter \/ setSearchQuery

SpecView == InitView /\ [][NextView]_vars

(***************************************************************************)
(* withRetry on its own: one execution over a closure whose calls succeed, *)
(* conflict or fail in any order, for every retry budget up to a bound.    *)
(***************************************************************************)
MaxRetriesBound == 4

Outcomes == {"ok", "ConflictError", "Error", "NOT_FOUND"}

InitRetry ==
    /\ store = FileOf(Seed)
    /\ cache = NoEntry
    /\ req = [r \in Requests |-> Idle]
    /\ lastRead = NoRead
    /\ \E m \in -1..MaxRetriesBound : job = [NoJob EXCEPT !.pc = "loop", !.maxRetries = m]
    /\ auth = NoAuth
    /\ list = NoList
    /\ probe = NoProbe
    /\ ui = NoUi

\* the for statement: enter the body, or fall out to the final throw
JobLoop ==
    /\ job.pc = "loop"
    /\ job' = IF loopTest(job.attempt, job.maxRetries)
              THEN [job EXCEPT !.pc = "call"]
              ELSE [job EXCEPT !.pc = "done", !.result = "withRetry: unreachable"]
    /\ UNCHANGED <<store, cache, req, lastRead, auth, list, probe, ui>>

\* return await fn(): the closure is called
JobInvoke ==
    /\ job.pc = "call"
    /\ job' = [job EXCEPT !.pc = "await", !.invocations = @ + 1]
    /\ UNCHANGED <<store, cache, req, lastRead, auth, list, probe, ui>>

\* the promise of the closure settles: the return, or the catch block
JobSettle ==
    /\ job.pc = "await"
    /\ \E outcome \in Outcomes :
        LET decision == withRetry(outcome, job.attempt, job.maxRetries)
            settled == [job EXCEPT !.last = outcome, !.log = Append(@, outcome)]
        IN  job' = CASE decision = "return" -> [settled EXCEPT !.pc = "done", !.result = "ok"]
                     [] decision = "retry" -> [settled EXCEPT !.pc = "sleep"]
                     [] OTHER -> [settled EXCEPT !.pc = "done", !.result = outcome]
    /\ UNCHANGED <<store, cache, req, lastRead, auth, list, probe, ui>>

\* the backoff timer fires; continue runs the loop increment
JobWake ==
    /\ job.pc = "sleep"
    /\ job' = [job EXCEPT !.pc = "loop", !.attempt = @ + 1,
                          !.delays = Append(@, backoffMs(job.attempt))]
    /\ UNCHANGED <<store, cache, req, lastRead, auth, list, probe, ui>>

NextRetry == JobLoop \/ JobInvoke \/ JobSettle \/ JobWake

SpecRetry == InitRetry /\ [][NextRetry]_vars

(***************************************************************************)
(* Properties of withRetry, checked under SpecRetry.                       *)
(***************************************************************************)
JobStarted == job.pc # "off"

\* C4: with maxRetries >= 0 the closure is never invoked more than
\* maxRetries + 1 times, and when withRetry has ended it has been invoked at
\* least once, whatever the closure's calls produced.
C4_InvocationBounds ==
    (JobStarted /\ job.maxRetries >= 0) =>
        /\ job.invocations <= job.maxRetries + 1
        /\ job.pc = "done" => job.invocations >= 1

\* a run with the default budget that used all four calls and then succeeded
C4_Witness ==
    /\ job.pc = "done"
    /\ job.maxRetries = DefaultMaxRetries
    /\ job.invocations = DefaultMaxRetries + 1
    /\ job.result = "ok"

AllConflicts(log) == \A i \in 1..Len(log) : log[i] = "ConflictError"

\* C5: when withRetry has ended and every call of the closure failed with a
\* version conflict, the conflict is what withRetry threw and the closure was
\* called exactly maxRetries + 1 times.
C5_BudgetExhaustion ==
    (job.pc = "done" /\ job.maxRetries >= 0 /\ AllConflicts(job.log)) =>
        /\ job.result = "ConflictError"
        /\ job.invocations = job.maxRetries + 1
        /\ Len(job.log) = job.invocations

\* the default budget exhausted: four calls, four conflicts
C5_Witness ==
    /\ job.pc = "done"
    /\ job.maxRetries = DefaultMaxRetries
    /\ job.log = <<"ConflictError", "ConflictError", "ConflictError", "ConflictError">>
    /\ job.result = "ConflictError"

\* C6: a call of the closure that fails with anything but a version conflict
\* ends withRetry at once with that failure: it is the last call, no sleep
\* follows it, and the only delays taken are those after the conflicts before it.
C6_OtherFailurePropagates ==
    /\ \A i \in 1..Len(job.log) :
          job.log[i] \notin {"ok", "ConflictError"} =>
            /\ i = Len(job.log)
            /\ job.pc = "done"
            /\ job.result = job.log[i]
            /\ job.invocations = i
            /\ Len(job.delays) = i - 1
    /\ \A i \in 1..(Len(job.log) - 1) : job.log[i] = "ConflictError"

\* a store error on the third call, after two conflicts
C6_Witness ==
    /\ job.pc = "done"
    /\ job.log = <<"ConflictError", "ConflictError", "Error">>
    /\ job.result = "Error"
    /\ job.delays = <<200, 400>>

\* C22: the k-th wait of withRetry lasts 200 * k milliseconds and follows the
\* k-th call of the closure, which ended in a version conflict with attempts
\* remaining; there is no wait before the first call, and none after the call
\* that ended withRetry (a success, another failure, or the last attempt).
C22_LinearBackoff ==
    JobStarted =>
        /\ \A k \in 1..Len(job.delays) :
              /\ job.delays[k] = 200 * k
              /\ job.log[k] = "ConflictError"
              /\ k <= job.maxRetries
        /\ Len(job.delays) <= Len(job.log)
        /\ job.log = <<>> => job.delays = <<>>
        /\ (job.pc = "done" /\ job.invocations >= 1) =>
              Len(job.delays) = job.invocations - 1
        /\ job.pc = "sleep" => Len(job.delays) = job.invocations - 1
        /\ job.pc \in {"loop", "call"} => Len(job.delays) = job.invocations

\* the default budget used up: waits of 200, 400 and 600 ms, none after the
\* fourth conflict
C22_Witness ==
    /\ job.pc = "done"
    /\ job.maxRetries = DefaultMaxRetries
    /\ job.delays = <<200, 400, 600>>
    /\ job.invocations = 4
    /\ job.result = "ConflictError"

(***************************************************************************)
(* Properties of the handlers and the store client, checked under Spec.    *)
(***************************************************************************)
\* the request got its success response
Success(q) == q.pc = "done" /\ q.status \in {200, 201}

\* the id of the event the request is about: the generated one for a create
Target(q) == IF q.kind = "POST" THEN Field(q.result, "id") ELSE q.id

\* the stored events show the mutation of request q
EffectIn(q, events) ==
    CASE q.kind = "DELETE" -> \A i \in 1..Len(events) : Field(events[i], "id") # q.id
      [] OTHER -> \E i \in 1..Len(events) : events[i] = stringifyEvent(q.result)

SeedFile == FileOf(Seed)

\* C1: when two concurrent mutation requests on different events have both
\* returned success, the stored document shows the mutation of each.
C1_NoLostUpdates ==
    \A a \in Requests : \A b \in Requests \ {a} :
        (Success(req[a]) /\ Success(req[b]) /\ Target(req[a]) # Target(req[b])) =>
            /\ EffectIn(req[a], StoredEvents)
            /\ EffectIn(req[b], StoredEvents)

\* both succeeded on different events, one of them after losing a round
C1_Witness ==
    \E a \in Requests : \E b \in Requests \ {a} :
        /\ Success(req[a]) /\ Success(req[b])
        /\ Target(req[a]) # Target(req[b])
        /\ req[a].attempt >= 1
        /\ EffectIn(req[a], StoredEvents) /\ EffectIn(req[b], StoredEvents)
        /\ StoredEvents # Seed

\* C2: when the write of another request (on a different event) landed
\* between a request's first read and its first write, that first write lost,
\* no write landed afterwards and the store answered every call, the request
\* needs one retry only: it succeeds on its second call of the closure and the
\* stored document shows both mutations.
C2_RetryRecoversFromOneConflict ==
    \A a \in Requests : \A b \in Requests \ {a} :
        LET A == req[a]
            B == req[b]
        IN  ( /\ A.raced = 1 /\ ~A.late /\ A.attempt >= 1
              /\ A.err # "Error"
              /\ B.last = "ok" /\ B.writes >= 1
              /\ Target(A) # Target(B) ) =>
                /\ A.attempt = 1
                /\ A.pc = "done" =>
                    /\ Success(A)
                    /\ A.invocations = 2
                    /\ EffectIn(A, StoredEvents) /\ EffectIn(B, StoredEvents)

\* C3: the read of a retried call of the closure returns the document and
\* the token the store holds at that moment, and is not served by the read cache.
C3_RetriedReadsBypassCache ==
    \A r \in Requests :
        (req[r].attempt >= 1 /\ req[r].invocations = req[r].attempt + 1) =>
            /\ req[r].fresh
            /\ req[r].src # "cache"

\* request r performs its saveEvents call in this step, with a token that is
\* not the store's current one
StaleWrite(r) ==
    /\ req[r].pc = "write"
    /\ req'[r].writes = req[r].writes + 1
    /\ req[r].sha # store.sha

\* C7 as stated: a write with a token other than the current one always
\* fails with a version conflict and leaves document and token unchanged.
C7_StaleWriteAlwaysConflicts ==
    [][\A r \in Requests :
        StaleWrite(r) => (req'[r].last = "ConflictError" /\ store' = store)]_vars

\* C7 amended: a write with a token other than the current one never
\* succeeds and leaves document and token unchanged; it fails with a version
\* conflict whenever GitHub answers the call, and with the store error when
\* the call itself fails.
C7_StaleWriteFails ==
    [][\A r \in Requests :
        StaleWrite(r) =>
            /\ store' = store
            /\ req'[r].last = IF req'[r].reached THEN "ConflictError" ELSE "Error"]_vars

\* a request whose write was answered with the conflict
C7_Witness ==
    \E r \in Requests :
        /\ req[r].last = "ConflictError"
        /\ req[r].writes >= 1
        /\ req[r].reached
        /\ req[r].sha # store.sha
        /\ store # SeedFile

\* request r's saveEvents call succeeds in this step
WriteLands(r) == req[r].pc = "write" /\ req'[r].pc = "revalidate"

\* request r's getEvents call returns in this step
ReadReturns(r) == req[r].pc = "read" /\ req'[r].pc = "write"

\* a GET /api/events returns in this step (a repeated identical answer
\* leaves the record as it is)
ListReturns ==
    /\ lastRead' # lastRead
    /\ lastRead'.some /\ ~lastRead'.written /\ ~lastRead'.invalidated

FailsValidation(q) ==
    \/ /\ q.kind = "POST"
       /\ \/ Field(q.body, "year").t # "number"
          \/ Field(q.body, "category").s \notin validCategories
    \/ /\ q.kind = "PUT"
       /\ \/ Field(q.body, "year").t \notin {"undefined", "number"}
          \/ /\ Field(q.body, "category").t = "string"
             /\ Field(q.body, "category").n > 0
             /\ Field(q.body, "category").s \notin validCategories

C11_UnauthorizedFirst ==
    [][\A r \in Requests :
        (req'[r].pc # "idle" /\ ~req'[r].isOwner) =>
            /\ req'[r].pc = "done"
            /\ req'[r].status = 401 /\ req'[r].message = "Unauthorized"
            /\ req'[r].invocations = 0 /\ req'[r].reads = 0 /\ req'[r].writes = 0
            /\ req[r].pc = "idle" => (store' = store /\ cache' = cache)]_vars

\* a create whose body is invalid and a delete, both unauthorized and both
\* answered, the document being the seed still
C11_Witness ==
    \E a \in Requests : \E b \in Requests \ {a} :
        /\ req[a].kind = "POST" /\ ValidatePOST(req[a].body) # ""
        /\ req[a].status = 401 /\ ~req[a].isOwner
        /\ req[b].kind = "DELETE" /\ req[b].status = 401
        /\ store = SeedFile

\* the collection a getEvents() call returns in the current state, when it
\* returns one
ReadableEvents ==
    IF cache.full THEN parse(fromBase64(cache.content)) ELSE StoredEvents

\* request r's getEvents() call returns a collection in this step
ReadAnswered(r) ==
    /\ req[r].pc = "read"
    /\ req'[r].reads = req[r].reads + 1
    /\ req'[r].err # "Error"

\* C12: when the collection an update or delete has just read holds no event
\* with the request's id, the request ends in that step with 404 "Event not
\* found": no further attempt, no write, the stored document and its token
\* unchanged.
C12_NotFoundIsTerminal ==
    [][\A r \in Requests :
        ( /\ ReadAnswered(r)
          /\ req[r].kind \in {"PUT", "DELETE"}
          /\ findIndex(ReadableEvents, req[r].id) = 0 ) =>
            /\ req'[r].pc = "done"
            /\ req'[r].err = "NOT_FOUND"
            /\ req'[r].status = 404 /\ req'[r].message = "Event not found"
            /\ req'[r].attempt = req[r].attempt
            /\ req'[r].writes = req[r].writes
            /\ req'[r].delays = req[r].delays
            /\ store' = store]_vars

\* a delete of an id that never existed, and an update that found its event
\* gone when it read again after a conflict
C12_Witness ==
    \E a \in Requests : \E b \in Requests \ {a} :
        /\ req[a].kind = "PUT" /\ req[a].id = Id5
        /\ req[a].status = 404 /\ req[a].attempt >= 1 /\ req[a].writes >= 1
        /\ req[b].kind = "DELETE" /\ Success(req[b])
        /\ findIndex(StoredEvents, Id5) = 0

\* the ids of these events are pairwise distinct
UniqueIds(events) ==
    \A i \in 1..Len(events) : \A j \in 1..Len(events) :
        i # j => Field(events[i], "id") # Field(events[j], "id")

\* C13: the ids of the stored events are pairwise distinct in every reachable
\* state, whatever creates, updates and deletes ran and however they
\* interleaved; two creates with the same body that both succeeded returned
\* events with different ids, both of them stored.
C13_UniqueIds ==
    /\ UniqueIds(StoredEvents)
    /\ \A a \in Requests : \A b \in Requests \ {a} :
        ( /\ Success(req[a]) /\ Success(req[b])
          /\ req[a].kind = "POST" /\ req[b].kind = "POST"
          /\ req[a].body = req[b].body ) =>
            /\ Field(req[a].result, "id") # Field(req[b].result, "id")
            /\ EffectIn(req[a], StoredEvents) /\ EffectIn(req[b], StoredEvents)

\* two creates with the same body, which names the id of a stored event,
\* have both succeeded, one of them at its second attempt
C13_Witness ==
    \E a \in Requests : \E b \in Requests \ {a} :
        /\ Success(req[a]) /\ Success(req[b])
        /\ req[a].kind = "POST" /\ req[b].kind = "POST"
        /\ req[a].body = req[b].body
        /\ Field(req[a].body, "id") = Id5
        /\ req[a].attempt >= 1
        /\ Len(StoredEvents) = Len(Seed) + 2

\* the events in the file after the step
StoredEventsAfter == parse(fromBase64(store'.content))

\* C14: when the write of an update lands, the event it stores and returns
\* has the id of the request, whatever the body holds (an id field included),
\* and every position of the collection holds the id it held before: no event
\* with the id of the body appears.
C14_IdImmutable ==
    [][\A r \in Requests :
        (WriteLands(r) /\ req[r].kind = "PUT") =>
            /\ Field(req'[r].result, "id") = req[r].id
            /\ \E i \in 1..Len(StoredEventsAfter) :
                  StoredEventsAfter[i] = stringifyEvent(req'[r].result)
            /\ Len(StoredEventsAfter) = Len(StoredEvents)
            /\ \A i \in 1..Len(StoredEvents) :
                  Field(StoredEventsAfter[i], "id") = Field(StoredEvents[i], "id")]_vars

\* an update whose body names the id of another stored event has succeeded:
\* the event kept its id and took the body's name
C14_Witness ==
    \E r \in Requests :
        /\ Success(req[r]) /\ req[r].kind = "PUT"
        /\ req[r].id = Id1 /\ Field(req[r].body, "id") = Id5
        /\ \E i \in 1..Len(StoredEvents) :
              /\ Field(StoredEvents[i], "id") = Id1
              /\ Field(StoredEvents[i], "name") = Str("X", 1)
        /\ UniqueIds(StoredEvents)

\* C15: every stored event's category is one of the five values, and a create
\* or update of the owner whose body carries any other category value (an
\* empty, null or otherwise falsy one included) is answered 400 without a
\* read or a write.
C15_StoredCategoriesValid ==
    /\ \A i \in 1..Len(StoredEvents) :
          IsValidCategory(Field(StoredEvents[i], "category"))
    /\ \A r \in Requests :
        ( /\ req[r].pc # "idle" /\ req[r].isOwner
          /\ req[r].kind \in {"POST", "PUT"}
          /\ "category" \in DOMAIN req[r].body
          /\ ~IsValidCategory(req[r].body.category) ) =>
            /\ req[r].status = 400
            /\ req[r].reads = 0 /\ req[r].writes = 0

\* the response of the catch block to a store-unavailable error
StoreErrorResponse(kind) == <<errorStatus(kind, "Error"), errorMessage(kind, "Error")>>

\* C16: the response to a create, update or delete that ended because every
\* attempt of its retry budget met a version conflict differs, in status or
\* in error text, from the response the same handler gives to a
\* store-unavailable error.
C16_ExhaustionDistinct ==
    \A r \in Requests :
        ( /\ req[r].pc = "done" /\ req[r].err = "ConflictError"
          /\ req[r].invocations = DefaultMaxRetries + 1 ) =>
            <<req[r].status, req[r].message>> # StoreErrorResponse(req[r].kind)

\* the write of update r lands in this step; the event at the request's id
\* was at position i, and: the fields named in given have the body's values,
\* the other fields keep the values they had, the stored event is the
\* returned one, every other position is unchanged, and the token returned
\* is the store's new one, which is new when the event changed
UpdateMerges(r, given) ==
    LET i == findIndex(StoredEvents, req[r].id)
        old == StoredEvents[i]
        e == req'[r].result
    IN  /\ i # 0
        /\ \A f \in given : e[f] = req[r].body[f]
        /\ \A f \in DOMAIN old \ DOMAIN req[r].body : e[f] = old[f]
        /\ DOMAIN e = DOMAIN old \cup DOMAIN req[r].body
        /\ Len(StoredEventsAfter) = Len(StoredEvents)
        /\ StoredEventsAfter[i] = stringifyEvent(e)
        /\ \A j \in 1..Len(StoredEvents) : j # i => StoredEventsAfter[j] = StoredEvents[j]
        /\ req'[r].saved = store'.sha
        /\ StoredEventsAfter[i] # old => req'[r].saved # req[r].sha

\* C19 as stated: a successful update stores and returns an event in which
\* every field of the body has the supplied value and every other field keeps
\* its value, with a new token; all other events and positions are unchanged.
C19_UpdateTakesEveryField ==
    [][\A r \in Requests :
        (WriteLands(r) /\ req[r].kind = "PUT") =>
            UpdateMerges(r, DOMAIN req[r].body)]_vars

\* C19 amended: the same for every field of the body other than id; the id
\* of the event stays the id of the request.
C19_UpdateTakesEveryFieldButId ==
    [][\A r \in Requests :
        (WriteLands(r) /\ req[r].kind = "PUT") =>
            /\ UpdateMerges(r, DOMAIN req[r].body \ {"id"})
            /\ req'[r].result.id = req[r].id]_vars

\* the update {year: -27, endYear: 476} of the first seed event has succeeded
\* with a new token, and the stored event shows it next to its old fields
C19_Witness ==
    \E r \in Requests :
        /\ Success(req[r]) /\ req[r].kind = "PUT"
        /\ req[r].body = [year |-> Num(-27), endYear |-> Num(476)]
        /\ req[r].result = [Seed[1] EXCEPT !.year = Num(-27), !.endYear = Num(476)]
        /\ req[r].saved # req[r].sha
        /\ StoredEvents = <<req[r].result, Seed[2]>>

\* the value of an optional field of a create: the supplied one, or null
SuppliedOrNull(body, f) ==
    IF f \in DOMAIN body /\ body[f].t # "null" THEN body[f] ELSE Null

\* C20: when the write of a create lands, the stored collection is the one
\* stored before followed by one new event; its id is a generated one (not
\* the id of the body, not the id of a stored event), its year, name and
\* category are the body's, its endYear, region and description are the
\* body's or null; the event returned with 201 is that stored event.
C20_CreateAppends ==
    [][\A r \in Requests :
        (WriteLands(r) /\ req[r].kind = "POST") =>
            LET e == req'[r].result
                body == req[r].body
            IN  /\ StoredEventsAfter = Append(StoredEvents, e)
                /\ DOMAIN e = {"id", "year", "name", "category", "endYear", "region",
                               "description"}
                /\ e.id.t = "string" /\ e.id.n = 36
                /\ e.id # Field(body, "id")
                /\ \A i \in 1..Len(StoredEvents) : StoredEvents[i].id # e.id
                /\ e.year = body.year /\ e.name = body.name
                /\ e.category = body.category
                /\ \A f \in {"endYear", "region", "description"} :
                      e[f] = SuppliedOrNull(body, f)
                /\ successStatus(req[r].kind) = 201]_vars

\* a create whose body names the id of a stored event and an endYear has
\* succeeded at its second attempt: the new event is the last of three
C20_Witness ==
    \E r \in Requests :
        /\ Success(req[r]) /\ req[r].kind = "POST" /\ req[r].status = 201
        /\ req[r].attempt >= 1
        /\ Field(req[r].body, "id") = Id5
        /\ req[r].result.id # Id5
        /\ req[r].result.endYear = Num(1972) /\ req[r].result.region = Null
        /\ Len(StoredEvents) = 3
        /\ StoredEvents[3] = req[r].result

\* C21: when the write of a delete lands, the stored collection holds no
\* event with the request's id, and holds every other event of the collection
\* stored before, unchanged and in the same order: the events before the
\* deleted one keep their positions, those after it move up by one.
C21_DeleteRemovesOnlyTarget ==
    [][\A r \in Requests :
        (WriteLands(r) /\ req[r].kind = "DELETE") =>
            LET i == findIndex(StoredEvents, req[r].id)
            IN  /\ i # 0
                /\ \A j \in 1..Len(StoredEventsAfter) :
                      Field(StoredEventsAfter[j], "id") # req[r].id
                /\ Len(StoredEventsAfter) = Len(StoredEvents) - 1
                /\ \A j \in 1..(i - 1) : StoredEventsAfter[j] = StoredEvents[j]
                /\ \A j \in i..Len(StoredEventsAfter) :
                      StoredEventsAfter[j] = StoredEvents[j + 1]]_vars

\* the first seed event has been deleted after the other request's create:
\* the second seed event and the created one remain, in that order
C21_Witness ==
    \E a \in Requests : \E b \in Requests \ {a} :
        /\ Success(req[a]) /\ req[a].kind = "DELETE" /\ req[a].id = Id1
        /\ Success(req[b]) /\ req[b].kind = "POST"
        /\ StoredEvents = <<Seed[2], req[b].result>>

(***************************************************************************)
(* Properties of the read cache, checked under SpecList.                   *)
(***************************************************************************)
\* C17: the step that gives a create, update or delete its success response
\* leaves the read cache empty, and every list request that entered after
\* that response returns a collection that shows the mutation.
C17_ListsAfterResponseShowMutation ==
    [][ /\ \A r \in Requests :
            (Success(req'[r]) /\ ~Success(req[r])) => cache' = NoEntry
        /\ list'.pc = "done" =>
            \A r \in list'.after : EffectIn(req'[r], list'.data) ]_vars

(***************************************************************************)
(* Properties of the owner capability, checked under SpecAuth.             *)
(***************************************************************************)
\* C18: a session is the owner's only if the token it was made from carries
\* a username and that username is the configured GITHUB_OWNER; a session
\* made from a token without a username is never the owner's, whatever
\* GITHUB_OWNER is (unset included); requireOwner() lets only such an owner
\* session pass.
C18_OnlyTheOwnerAccount ==
    /\ (auth.session.some /\ auth.session.isOwner) =>
          (auth.used.username.t = "string" /\ auth.used.username = auth.env)
    /\ (auth.session.some /\ auth.used.username.t = "undefined") =>
          ~auth.session.isOwner
    /\ auth.passed = "session" =>
          (auth.used.username.t = "string" /\ auth.used.username = auth.env)

(***************************************************************************)
(* Properties of the store client, checked under SpecStore.                *)
(***************************************************************************)
\* the caller's last call was a read that returned, after a write of its own
\* that landed
ReadAfterWrite == probe.op = "read" /\ probe.outcome = "ok" /\ probe.wrote

EventFields == {"id", "year", "name", "category", "endYear", "region", "description"}

YearOk(v) == v.t = "number" /\ v.s = "" /\ v.n >= -9999 /\ v.n <= 9999

Absent(v) == v.t \in {"undefined", "null"}

NameOk(v) == v.t = "string" /\ v.s # "" /\ v.n <= 500

TextOk(v, max) == v.t = "string" /\ v.n <= max

\* the last request carried a body: a create or an update
Submitted == probe.op = "submit" /\ probe.kind \in {"POST", "PUT"}

\* the last request was answered with its success status
Accepted ==
    /\ Submitted /\ probe.outcome = "ok"
    /\ probe.status = (IF probe.kind = "POST" THEN 201 ELSE 200)

\* the event the last request answered with is in the file as answered
ResultStored ==
    \E i \in 1..Len(StoredEvents) : StoredEvents[i] = stringifyEvent(probe.result)

\* every field of the body but f is one the handler of that kind accepts,
\* each taken on its own
OthersFine(kind, body, f) ==
    /\ f = "year" \/ YearOk(Field(body, "year"))
                  \/ (kind = "PUT" /\ "year" \notin DOMAIN body)
    /\ f = "endYear" \/ Absent(Field(body, "endYear")) \/ YearOk(Field(body, "endYear"))
    /\ NameOk(Field(body, "name")) \/ (kind = "PUT" /\ "name" \notin DOMAIN body)
    /\ Absent(Field(body, "region")) \/ TextOk(Field(body, "region"), 200)
    /\ Absent(Field(body, "description")) \/ TextOk(Field(body, "description"), 2000)
    /\ IsValidCategory(Field(body, "category"))
          \/ (kind = "PUT" /\ "category" \notin DOMAIN body)

\* C24: after any sequence of successful create, update and delete requests
\* every stored event has exactly the fields id, year, name, category,
\* endYear, region, description, whatever extra fields the bodies carried.
C24_StoredEventsHaveTheSevenFields ==
    \A i \in 1..Len(StoredEvents) : DOMAIN StoredEvents[i] = EventFields

\* C25: after any sequence of create and update requests every stored event
\* has a finite year in -9999..9999, a non-blank string name of at most 500
\* characters, an endYear that is null or absent or a number in -9999..9999,
\* a region that is null or absent or a string of at most 200 characters and
\* a description that is null or absent or a string of at most 2000.
C25_StoredFieldsValid ==
    \A i \in 1..Len(StoredEvents) :
        LET e == StoredEvents[i]
        IN  /\ YearOk(Field(e, "year"))
            /\ NameOk(Field(e, "name"))
            /\ Absent(Field(e, "endYear")) \/ YearOk(Field(e, "endYear"))
            /\ Absent(Field(e, "region")) \/ TextOk(Field(e, "region"), 200)
            /\ Absent(Field(e, "description")) \/ TextOk(Field(e, "description"), 2000)

\* two updates were accepted and left an event at the edge of what is
\* allowed: year 9999 and a name of 500 characters
C25_Witness ==
    /\ Accepted /\ probe.submits = 2
    /\ \E i \in 1..Len(StoredEvents) :
          /\ StoredEvents[i].year = Num(9999)
          /\ StoredEvents[i].name.n = 500

\* C26: on create and update a year or endYear of exactly -9999 or 9999 is
\* accepted (the request succeeds and the value is stored) and one of -10000
\* or 10000 is rejected with status 400 and the range message.
C26_InclusiveYearBounds ==
    Submitted =>
        \A f \in {"year", "endYear"} :
            LET v == Field(probe.body, f)
            IN  /\ v \in {Num(-10000), Num(10000)} =>
                      /\ probe.status = 400
                      /\ probe.message \in {"Year must be between -9999 and 9999",
                                             "End year must be between -9999 and 9999"}
                      /\ \A i \in 1..Len(StoredEvents) : Field(StoredEvents[i], f) # v
                /\ (v \in {Num(-9999), Num(9999)} /\ OthersFine(probe.kind, probe.body, f)) =>
                      /\ Accepted
                      /\ probe.result[f] = v
                      /\ ResultStored

\* an update to year 9999 and then one to endYear -9999 were both accepted
C26_Witness ==
    /\ Accepted /\ probe.kind = "PUT" /\ Field(probe.body, "endYear") = Num(-9999)
    /\ probe.result.year = Num(9999)
    /\ ResultStored

\* C27: a create or an update whose fields are each acceptable is accepted
\* and its event stored, whatever the order of year and endYear; so no
\* request is rejected for endYear < year.
C27_RangeOrderNotChecked ==
    (Submitted /\ OthersFine(probe.kind, probe.body, "none")) =>
        /\ Accepted
        /\ ResultStored
        /\ \A f \in DOMAIN probe.body \cap {"year", "endYear"} :
              probe.result[f] = probe.body[f]

\* an update moved the endYear of a stored event before its year, then a
\* create with endYear 1000 and year 1500 was accepted, and both are stored
C27_Witness ==
    /\ Accepted /\ probe.kind = "POST" /\ ResultStored
    /\ probe.result.endYear.t = "number"
    /\ probe.result.endYear.n < probe.result.year.n
    /\ StoredEvents[1].id = Id1
    /\ StoredEvents[1].endYear = Num(-9999)
    /\ StoredEvents[1].year = Seed[1].year

(***************************************************************************)
(* Properties of the client list, checked under SpecClient.                *)
(***************************************************************************)
\* the ids handleAddEvent gives its optimistic entries
TempIds == {randomUUID("T", k) : k \in 1..MaxCalls}

IdsOf(events) == {Field(events[i], "id") : i \in 1..Len(events)}

SetOf(events) == {events[i] : i \in 1..Len(events)}

\* the steps of a handler call of one kind: its start, and its resumption
\* after the response
Starts(slot, kind) ==
    ui[slot].pc = "idle" /\ ui'[slot].pc = "sent" /\ ui'[slot].kind = kind

Resumes(slot, kind) ==
    ui[slot].pc = "answered" /\ ui[slot].kind = kind /\ ui'[slot].pc = "idle"

\* every entry under a temporary id belongs to the add that is in flight
NoTemporaryIdRemains ==
    \A i \in 1..Len(ui.events) :
        ui.events[i].id \in TempIds =>
            /\ ui.form.pc # "idle" /\ ui.form.kind = "add"
            /\ ui.form.id = ui.events[i].id

\* C28: handleAddEvent appends the new event under a temporary id at once;
\* on success the entry with the temporary id is replaced by the event the
\* server returned; on failure that entry is removed, and with no other
\* mutation in flight during the add the list equals the list before the
\* add; once the add is over, in either case, no entry with the temporary
\* id is in the list.
C28_OptimisticAdd ==
    [][ /\ Starts("form", "add") =>
              /\ ui'.form.id \notin IdsOf(ui.events)
              /\ Len(ui'.events) = Len(ui.events) + 1
              /\ SubSeq(ui'.events, 1, Len(ui.events)) = ui.events
              /\ ui'.events[Len(ui'.events)].id = ui'.form.id
              /\ \A f \in DOMAIN ui'.form.data :
                    ui'.events[Len(ui'.events)][f] = ui'.form.data[f]
        /\ (Resumes("form", "add") /\ ui.form.status \in {200, 201}) =>
              /\ Len(ui'.events) = Len(ui.events)
              /\ \A i \in 1..Len(ui.events) :
                    ui'.events[i] = (IF ui.events[i].id = ui.form.id
                                     THEN ui.form.result ELSE ui.events[i])
        /\ (Resumes("form", "add") /\ ui.form.status \notin {200, 201}) =>
              /\ ui'.events = SelectSeq(ui.events, LAMBDA e : e.id # ui.form.id)
              /\ ui.form.alone => ui'.events = ui.form.before
        /\ Resumes("form", "add") => ui.form.id \notin IdsOf(ui'.events)
        /\ NoTemporaryIdRemains' ]_vars

\* C29: handleEditEvent applies the supplied fields to the event in place at
\* once; on success the event is replaced by the server's response; on
\* failure the event is set back to the value it had before the edit, and
\* with no other mutation in flight during the edit the list then equals
\* the list before the edit.
C29_OptimisticEdit ==
    [][ /\ Starts("form", "edit") =>
              /\ Len(ui'.events) = Len(ui.events)
              /\ \A i \in 1..Len(ui.events) :
                    IF ui.events[i].id = ui'.form.id
                    THEN /\ \A f \in DOMAIN ui'.form.data :
                               ui'.events[i][f] = ui'.form.data[f]
                         /\ ui'.events[i].id = ui.events[i].id
                    ELSE ui'.events[i] = ui.events[i]
              /\ ui'.form.id \in IdsOf(ui.events)
        /\ (Resumes("form", "edit") /\ ui.form.status = 200) =>
              /\ Len(ui'.events) = Len(ui.events)
              /\ \A i \in 1..Len(ui.events) :
                    ui'.events[i] = (IF ui.events[i].id = ui.form.id
                                     THEN ui.form.result ELSE ui.events[i])
        /\ (Resumes("form", "edit") /\ ui.form.status # 200) =>
              /\ Len(ui'.events) = Len(ui.events)
              /\ \A i \in 1..Len(ui.events) :
                    /\ ui.events[i].id = ui.form.id =>
                          /\ ui'.events[i] \in SetOf(ui.form.before)
                          /\ ui'.events[i].id = ui.form.id
                    /\ ui.events[i].id # ui.form.id => ui'.events[i] = ui.events[i]
              /\ ui.form.alone => ui'.events = ui.form.before ]_vars

\* an edit that changed the year and the name of the first event failed with
\* nothing else in flight, and the list is the one before the edit
C29_Witness ==
    /\ ui.last.pc = "settled" /\ ui.last.kind = "edit" /\ ui.last.alone
    /\ ui.last.status \notin {200, 201}
    /\ ui.last.id = Id1 /\ ui.last.data.year # Seed[1].year
    /\ ui.form.pc = "idle" /\ ui.dialog.pc = "idle"
    /\ ui.events = ui.last.before
    /\ ui.events = Seed

\* the step of a delete call that returns at once
DeleteReturns ==
    /\ ui'.n = ui.n + 1 /\ ui'.last.seq = ui'.n
    /\ ui'.last.pc = "returned" /\ ui'.last.kind = "delete"

\* C30 as stated: handleDeleteEvent removes the event at once; when the
\* request fails the removed event is put back and the list contains the
\* same set of events as before the delete; a delete of an id not in the
\* list sends no request and changes nothing.
C30_OptimisticDelete ==
    [][ /\ Starts("dialog", "delete") =>
              /\ ui'.dialog.id \in IdsOf(ui.events)
              /\ ui'.events = SelectSeq(ui.events, LAMBDA e : e.id # ui'.dialog.id)
        /\ (Resumes("dialog", "delete") /\ ui.dialog.status # 200) =>
              /\ ui.dialog.original \in SetOf(ui'.events)
              /\ SetOf(ui'.events) = SetOf(ui.dialog.before)
        /\ DeleteReturns =>
              /\ ui'.last.id \notin IdsOf(ui.events)
              /\ ui'.events = ui.events
              /\ ui'.dialog = ui.dialog /\ ui'.form = ui.form
              /\ store' = store ]_vars

\* C30 amended: the same, the list containing the same set of events as
\* before the delete when no other mutation was in flight during the
\* delete.
C30_OptimisticDeleteAlone ==
    [][ /\ Starts("dialog", "delete") =>
              /\ ui'.dialog.id \in IdsOf(ui.events)
              /\ ui'.events = SelectSeq(ui.events, LAMBDA e : e.id # ui'.dialog.id)
        /\ (Resumes("dialog", "delete") /\ ui.dialog.status # 200) =>
              /\ ui.dialog.original \in SetOf(ui'.events)
              /\ ui.dialog.alone => SetOf(ui'.events) = SetOf(ui.dialog.before)
        /\ DeleteReturns =>
              /\ ui'.last.id \notin IdsOf(ui.events)
              /\ ui'.events = ui.events
              /\ ui'.dialog = ui.dialog /\ ui'.form = ui.form
              /\ store' = store ]_vars

\* a delete of the first event failed and put the event back, at the end of
\* the list; then a delete of an id that is not in the list returned at once
C30_Witness ==
    /\ ui.last.pc = "returned" /\ ui.last.kind = "delete" /\ ui.last.id = IdMissing
    /\ ui.form.pc = "idle" /\ ui.dialog.pc = "idle"
    /\ ui.events = <<Seed[2], Seed[1]>>
    /\ store = FileOf(Seed)

(***************************************************************************)
(* Properties of the retried create, checked under Spec.                   *)
(***************************************************************************)
\* the ids request r can generate: one per call of its closure
AttemptIds(r) == {randomUUID(r, k) : k \in 1..(DefaultMaxRetries + 1)}

\* the places of the stored document that hold an event of request r
StoredOf(r) == {i \in 1..Len(StoredEvents) : Field(StoredEvents[i], "id") \in AttemptIds(r)}

\* C33: a create that returned success has added exactly one event to the
\* stored document, the one it answered with, however many attempts the
\* retry loop needed; an event built with the id of an attempt that ended in
\* a conflict (or in any other error) is never in the store.
C33_CreateAddsExactlyOne ==
    \A r \in Requests :
        req[r].kind = "POST" =>
            /\ Cardinality(StoredOf(r)) <= 1
            /\ \A i \in StoredOf(r) :
                  /\ StoredEvents[i].id = randomUUID(r, req[r].invocations)
                  /\ req[r].last = "ok"
                  /\ StoredEvents[i] = stringifyEvent(req[r].result)
            /\ Success(req[r]) => Cardinality(StoredOf(r)) = 1

\* a create that met a conflict on its first attempt and succeeded on a
\* later one: the store holds its event once, under the id of the last attempt
C33_Witness ==
    \E r \in Requests :
        /\ req[r].kind = "POST" /\ Success(req[r])
        /\ req[r].invocations >= 2 /\ req[r].delays # <<>>
        /\ Cardinality(StoredOf(r)) = 1
        /\ randomUUID(r, 1) \notin {Field(StoredEvents[i], "id") : i \in 1..Len(StoredEvents)}

(***************************************************************************)
(* Properties of a request that runs alone, checked under SpecEdits.       *)
(***************************************************************************)
\* request r is the latest one, it has its response, and it was a mutation
\* of the owner with a valid body, about an event that was in the file when
\* it started (for an update or a delete), every call to GitHub answered
RanAloneAndWell(r) ==
    /\ probe.op = "start" /\ probe.src = r
    /\ req[r].pc = "done"
    /\ req[r].status \notin {400, 401}
    /\ req[r].last # "Error"
    /\ req[r].kind = "POST" \/ req[r].id \in IdsOf(probe.data)

\* C34: a mutation request of the owner with a valid body (and an existing
\* id for update and delete), issued while the store answers and no other
\* write is in flight, returns success without exhausting the retry budget,
\* whatever reads and writes, through the application or directly on the
\* store, happened before it.
C34_NoSpuriousConflict ==
    \A r \in Requests :
        RanAloneAndWell(r) =>
            /\ Success(req[r])
            /\ req[r].err # "ConflictError"
            /\ req[r].attempt <= DefaultMaxRetries

(***************************************************************************)
(* Convergence of the client list, checked under SpecClient.               *)
(***************************************************************************)
\* every handler call of the client has run to its end
AllCompleted == ui.pc = "on" /\ ui.form.pc = "idle" /\ ui.dialog.pc = "idle"

\* C35: once all requests of the client have completed, whether they
\* succeeded or failed and whether or not they overlapped on the same
\* event, the client's list holds the events of the stored collection
\* (lists that still hold an entry under a temporary id, the case of C28,
\* set aside).
C35_ClientConverges ==
    (AllCompleted /\ IdsOf(ui.events) \cap TempIds = {}) =>
        SetOf(ui.events) = SetOf(StoredEvents)

(***************************************************************************)
(* Properties of the year formatting, checked under SpecFormat.            *)
(***************************************************************************)
RECURSIVE Decimal(_)
\* the decimal digits of a natural number
Decimal(n) ==
    LET digit == <<"0", "1", "2", "3", "4", "5", "6", "7", "8", "9">>[(n % 10) + 1]
    IN  IF n < 10 THEN digit ELSE Decimal(n \div 10) \o digit

\* the text expected for one year
YearText(y) == IF y.n >= 0 THEN Decimal(y.n) ELSE Decimal(0 - y.n) \o " BC"

\* C32: formatYear returns the decimal year for every year >= 0 and the
\* absolute value followed by " BC" for every negative year;
\* formatYearRange(year, endYear) returns formatYear(year) when endYear is
\* null or undefined, and formatYear(year), "-", formatYear(endYear)
\* otherwise, endYear 0 included.
C32_YearFormatting ==
    LET year == Field(probe.body, "year")
        endYear == Field(probe.body, "endYear")
    IN  /\ probe.op = "formatYear" => probe.message = YearText(year)
        /\ probe.op = "formatYearRange" =>
              probe.message = (IF endYear = Null \/ endYear = Undefined
                               THEN YearText(year)
                               ELSE YearText(year) \o "-" \o YearText(endYear))

\* formatYearRange(-27, 0) gave "27 BC-0"
C32_Witness ==
    /\ probe.op = "formatYearRange"
    /\ probe.body = [year |-> Num(-27), endYear |-> Num(0)]
    /\ probe.message = "27 BC-0"

(***************************************************************************)
(* Properties of the displayed list, checked under SpecView.               *)
(***************************************************************************)
RECURSIVE Folded(_)
\* a text with its lower-case letters turned into capitals
Folded(s) ==
    IF Len(s) = 0 THEN ""
    ELSE LET c == SubSeq(s, 1, 1)
             cap == CASE c = "a" -> "A" [] c = "b" -> "B" [] c = "c" -> "C"
                      [] c = "d" -> "D" [] c = "e" -> "E" [] c = "f" -> "F"
                      [] c = "g" -> "G" [] c = "h" -> "H" [] c = "i" -> "I"
                      [] c = "j" -> "J" [] c = "k" -> "K" [] c = "l" -> "L"
                      [] c = "m" -> "M" [] c = "n" -> "N" [] c = "o" -> "O"
                      [] c = "p" -> "P" [] c = "q" -> "Q" [] c = "r" -> "R"
                      [] c = "s" -> "S" [] c = "t" -> "T" [] c = "u" -> "U"
                      [] c = "v" -> "V" [] c = "w" -> "W" [] c = "x" -> "X"
                      [] c = "y" -> "Y" [] c = "z" -> "Z" [] OTHER -> c
         IN  cap \o Folded(SubSeq(s, 2, Len(s)))

\* text contains query, the case of letters set aside
ContainsNoCase(text, query) ==
    \E i \in 0..(Len(text) - Len(query)) :
        Folded(SubSeq(text, i + 1, i + Len(query))) = Folded(query)

\* a query of spaces only, or empty
BlankQuery(query) == \A i \in 1..Len(query) : SubSeq(query, i, i) = " "

\* event e passes the filters the component holds
Matches(e) ==
    /\ ui.categoryFilter = "all" \/ e.category.s = ui.categoryFilter
    /\ \/ BlankQuery(ui.searchQuery)
       \/ ContainsNoCase(e.name.s, ui.searchQuery)
       \/ (e.region.t = "string" /\ ContainsNoCase(e.region.s, ui.searchQuery))

Rendered == ui.pc = "view" /\ probe.op = "render"

\* C31: the displayed list holds exactly the events of the client list that
\* match the selected category (all of them under "all") and, for a
\* non-blank query, whose name or region contains the query whatever the
\* case, each once, ordered by year descending; computing it leaves the
\* client list as it was.
C31_DisplayedList ==
    Rendered =>
        /\ SetOf(probe.data) = {e \in SetOf(ui.events) : Matches(e)}
        /\ Len(probe.data) = Cardinality({e \in SetOf(ui.events) : Matches(e)})
        /\ \A i \in 1..Len(probe.data) : \A j \in i..Len(probe.data) :
              probe.data[i].year.n >= probe.data[j].year.n
        /\ ui.events = probe.written

\* an unsorted list of three events under the query "on" and no category
\* filter: two match, by name, and the newer one is shown first
C31_Witness ==
    /\ Rendered
    /\ ui.categoryFilter = "all" /\ ui.searchQuery = "on"
    /\ ui.events = <<Seed[1], Bare, Seed[2]>>
    /\ probe.data = <<Seed[2], Seed[1]>>

====
